---- MODULE Spec2Model ----
(***************************************************************************)
(* p-board: the run-data cache of src/p_board/backend.py.                  *)
(*                                                                         *)
(* The module has two layers.  The data layer translates the statements    *)
(* of preload_all_runs_unified and of the two Hydra correlators into       *)
(* operators over the records that tbparse and the file system deliver.    *)
(* The process layer runs these statements as steps of threads (the main   *)
(* thread, the background refresh thread, the on-demand refresh threads    *)
(* and the request handlers) over a heap of dict objects, so that the      *)
(* rebinding of the global RUN_DATA_CACHE is a reference assignment and    *)
(* not a copy.                                                             *)
(***************************************************************************)
EXTENDS Integers, Sequences, FiniteSets, TLC

VARIABLES
    RUN_DATA_CACHE,   \* global: id of the dict object the name is bound to
    CACHE_LOAD_TIME,  \* global: 0, or the duration of a build (named by the build)
    objs,             \* heap: id -> [data, bid] for every live cache dict
    source,           \* what LOG_ROOT_DIR holds now (tbparse frames, subdirs)
    hydra,            \* what the two Hydra roots hold now
    config,           \* HYDRA_MULTIRUN_DIR / HYDRA_SINGLE_RUN_LOG_DIR / interval
    stop_event,       \* global: stop_event.is_set()
    background_thread, \* global: None, or the thread object it is bound to
    pc,               \* position of every thread
    loc,              \* locals of every builder thread
    req,              \* locals of every request handler
    nreads,           \* number of SummaryReader reads so far (names the builds)
    nchanges,         \* number of changes of the files so far
    built             \* history: build -> the items it assigned to RUN_DATA_CACHE

vars == <<RUN_DATA_CACHE, CACHE_LOAD_TIME, objs, source, hydra, config,
          stop_event, background_thread, pc, loc, req, nreads, nchanges, built>>

----------------------------------------------------------------------------
(* Bounds of the model. *)

MaxBuilds == 2      \* builds that get as far as reading the log source
MaxOnDemand == 1    \* on-demand refresh threads alive at the same time
MaxChanges == 1     \* changes of the files under the log root
MaxRecs == 3        \* scalar records in one tbparse frame
MaxHRecs == 2       \* hparams records in one tbparse frame

----------------------------------------------------------------------------
(* Python values. *)

\* None and optional values: None is <<>>, a present value x is <<x>>.
None == <<>>
Some(x) == <<x>>
\* {} : the dict with no keys.
EmptyDict == [x \in {} |-> 0]

\* One pandas cell of a numeric column.  Finite numbers are counted in
\* halves (v = 3 is 1.5), so that the integer cast is not the identity.
Num(h) == [k |-> "num", v |-> h]
NaN == [k |-> "nan", v |-> 0]
PosInf == [k |-> "inf", v |-> 0]
NegInf == [k |-> "ninf", v |-> 0]
Str == [k |-> "str", v |-> 0]

\* pd.to_numeric(col, errors='coerce'): what is not a number becomes NaN.
to_numeric(x) == IF x.k = "str" THEN NaN ELSE x

\* Series.isna / DataFrame.dropna test.
isna(x) == x.k = "nan"

\* value.isin([inf, -inf])
isin_inf(x) == x.k \in {"inf", "ninf"}

\* int(x) of a finite float: truncation toward zero, result in whole units.
TruncInt(h) == IF h >= 0 THEN h \div 2 ELSE -((-h) \div 2)

\* Left fold of a sequence.
RECURSIVE FoldSeq(_, _, _)
FoldSeq(Op(_, _), acc, s) ==
    IF s = <<>> THEN acc ELSE FoldSeq(Op, Op(acc, Head(s)), Tail(s))

\* The distinct values of a column.
ColumnValues(df, Col(_)) == {Col(df[i]) : i \in 1..Len(df)}

----------------------------------------------------------------------------
(* Step 5 of preload_all_runs_unified: cleaning and restructuring scalars. *)

\* df_scalars_cleaned[col] = pd.to_numeric(..., errors='coerce') for the
\* three numeric columns.
CoerceRow(r) ==
    [r EXCEPT !.step = to_numeric(r.step),
              !.value = to_numeric(r.value),
              !.wall_time = to_numeric(r.wall_time)]

\* dropna(subset=[step, value, wall_time]) and the +-inf filter on value.
KeepRow(r) ==
    /\ ~isna(r.step) /\ ~isna(r.value) /\ ~isna(r.wall_time)
    /\ ~isin_inf(r.value)

df_scalars_cleaned(df_scalars) ==
    SelectSeq([i \in 1..Len(df_scalars) |-> CoerceRow(df_scalars[i])], KeepRow)

\* df_scalars_cleaned[step_col].astype(int) raises on a non-finite step.
AstypeIntRaises(cleaned) == \E i \in 1..Len(cleaned) : isin_inf(cleaned[i].step)

\* The frame after .astype(int) on step: steps are whole numbers.
AstypeInt(cleaned) ==
    [i \in 1..Len(cleaned) |-> [cleaned[i] EXCEPT !.step = TruncInt(cleaned[i].step.v)]]

\* tag_df.sort_values(by=step_col): ascending by step, rows of equal step in
\* arrival order.
InsertByStep(sorted, r) ==
    LET n == Cardinality({i \in 1..Len(sorted) : sorted[i].step <= r.step})
    IN  SubSeq(sorted, 1, n) \o <<r>> \o SubSeq(sorted, n + 1, Len(sorted))

sort_values_unsorted(tag_df) == tag_df

sort_values(tag_df) == FoldSeq(InsertByStep, <<>>, tag_df)

\* One ScalarSeries: the three .to_list() columns of a sorted tag frame.
SeriesOfFiniteTimes(tag_df_sorted) ==
    LET timed == SelectSeq(tag_df_sorted, LAMBDA r : ~isin_inf(r.wall_time))
    IN  [steps |-> [i \in 1..Len(tag_df_sorted) |-> tag_df_sorted[i].step],
         values |-> [i \in 1..Len(tag_df_sorted) |-> tag_df_sorted[i].value],
         wall_times |-> [i \in 1..Len(timed) |-> timed[i].wall_time]]

SeriesOf(tag_df_sorted) ==
    [steps |-> [i \in 1..Len(tag_df_sorted) |-> tag_df_sorted[i].step],
     values |-> [i \in 1..Len(tag_df_sorted) |-> tag_df_sorted[i].value],
     wall_times |-> [i \in 1..Len(tag_df_sorted) |-> tag_df_sorted[i].wall_time]]

\* groupby(run_col) then groupby(tag_col): the scalars dict of one run.
RunScalars(frame, run_name) ==
    LET run_df == SelectSeq(frame, LAMBDA r : r.dir_name = run_name)
        tags == ColumnValues(run_df, LAMBDA r : r.tag)
    IN  [tag \in tags |->
            SeriesOf(sort_values(SelectSeq(run_df, LAMBDA r : r.tag = tag)))]

\* The whole of step 5 applied to temp_cache; Step5Raises tells whether the
\* statements raise instead.
Step5Raises(df_scalars) ==
    LET cleaned == df_scalars_cleaned(df_scalars)
    IN  cleaned # <<>> /\ AstypeIntRaises(cleaned)

ProcessScalars(temp_cache, df_scalars) ==
    LET cleaned == df_scalars_cleaned(df_scalars)
        frame == AstypeInt(cleaned)
        runs == ColumnValues(frame, LAMBDA r : r.dir_name) \cap DOMAIN temp_cache
    IN  [run \in DOMAIN temp_cache |->
            IF run \in runs
            THEN [temp_cache[run] EXCEPT !.scalars = RunScalars(frame, run)]
            ELSE temp_cache[run]]

----------------------------------------------------------------------------
(* Steps 2, 3 and 7: candidate run names and hyperparameters.  A dir_name  *)
(* is the sequence of its path segments: "run_a/ts" is <<"run_a", "ts">>   *)
(* and "" is <<>>.                                                         *)

\* Path(hparam_event_dir_name).parts[0] as a run name; the subscript raises
\* IndexError when the path has no parts.
PartsRaises(dir_name) == dir_name = <<>>
base_run_name(dir_name) == <<dir_name[1]>>

\* df_hparams.sort_values('wall_time').
InsertByWallTime(sorted, r) ==
    LET n == Cardinality({i \in 1..Len(sorted) : sorted[i].wall_time <= r.wall_time})
    IN  SubSeq(sorted, 1, n) \o <<r>> \o SubSeq(sorted, n + 1, Len(sorted))

sort_hparams(df_hparams) == FoldSeq(InsertByWallTime, <<>>, df_hparams)

\* The loop over df_hparams.iterrows() raises when one row has an empty path.
Step2Raises(df_hparams) ==
    \E i \in 1..Len(df_hparams) : PartsRaises(df_hparams[i].dir_name)

\* hparam_base_run_map: base run name -> its rows, in wall_time order.
hparam_base_run_map(df_hparams) ==
    LET sorted == sort_hparams(df_hparams)
        bases == ColumnValues(sorted, LAMBDA r : base_run_name(r.dir_name))
    IN  [b \in bases |->
            SelectSeq(sorted, LAMBDA r : base_run_name(r.dir_name) = b)]

\* all_base_run_names after step 2.
all_base_run_names(df_scalars, df_hparams) ==
    ColumnValues(df_scalars, LAMBDA r : r.dir_name)
        \cup DOMAIN hparam_base_run_map(df_hparams)

\* Step 3: with no names and HYDRA_MULTIRUN_DIR set, the immediate
\* subdirectories of LOG_ROOT_DIR; iterdir on a vanished root raises and
\* the error is logged, leaving the set empty.
FallbackNames(names, multirun_dir_set, src) ==
    IF names = {} /\ multirun_dir_set
    THEN (IF src.isdir THEN src.subdirs ELSE {})
    ELSE names

\* Step 4: the pre-initialised entry of a run.
NewEntry == [scalars |-> EmptyDict, hydra_overrides |-> None, hparams |-> None]

InitTempCache(names) == [run \in names |-> NewEntry]

\* Step 6: runs with a non-empty scalars dict.
RunsWithScalars(temp_cache) ==
    {run \in DOMAIN temp_cache : temp_cache[run].scalars # EmptyDict}

\* hparam_dict_to_store[tag] = value over the rows of one base run.
SetItem(d, key, val) == [k \in DOMAIN d \cup {key} |-> IF k = key THEN val ELSE d[k]]

\* hparam_entry_row.get('tag') of a row without a tag: Python's None,
\* written as a string that no tag is equal to.
NoTag == "<None>"

\* Lines 430-436: a row is stored only if its tag is not None.
hparam_dict_to_store(rows) ==
    FoldSeq(LAMBDA d, row : IF row.tag # NoTag THEN SetItem(d, row.tag, row.value)
                            ELSE d,
            EmptyDict, rows)

\* Step 7 applied to temp_cache.
ProcessHParams(temp_cache, df_hparams) ==
    LET hmap == hparam_base_run_map(df_hparams)
    IN  [run \in DOMAIN temp_cache |->
            IF run \in DOMAIN hmap /\ temp_cache[run].hparams = None
               /\ hmap[run] # <<>>
            THEN [temp_cache[run] EXCEPT
                    !.hparams = Some([hparam_dict |-> hparam_dict_to_store(hmap[run]),
                                      metric_dict |-> EmptyDict])]
            ELSE temp_cache[run]]

\* Runs that step 7 adds to runs_to_keep: a non-empty hparam_dict was stored.
RunsWithHParamsEntry(temp_cache, df_hparams) ==
    LET hmap == hparam_base_run_map(df_hparams)
    IN  {run \in DOMAIN temp_cache \cap DOMAIN hmap :
            /\ temp_cache[run].hparams = None
            /\ hmap[run] # <<>>}

RunsWithHParams(temp_cache, df_hparams) ==
    LET hmap == hparam_base_run_map(df_hparams)
    IN  {run \in DOMAIN temp_cache \cap DOMAIN hmap :
            /\ temp_cache[run].hparams = None
            /\ hmap[run] # <<>>
            /\ hparam_dict_to_store(hmap[run]) # EmptyDict}

----------------------------------------------------------------------------
(* Step 8: the two Hydra correlators.  A file is [text, readable]; a text  *)
(* that is searched is described by the run names it mentions.  Strings    *)
(* of digits are sequences of digits, so that int() and the 03d format     *)
(* are computed.                                                           *)

\* search_term in content_to_check: the empty string is in every text.
IsInfix(name, m) ==
    \E i \in 0..(Len(m) - Len(name)) : SubSeq(m, i + 1, i + Len(name)) = name

Contains(mentions, name) == name = <<>> \/ \E m \in mentions : IsInfix(name, m)

\* int(task_id)
IntOf(digits) == FoldSeq(LAMBDA acc, d : acc * 10 + d, 0, digits)

\* f"{n:03d}"
RECURSIVE Digits(_)
Digits(n) == IF n < 10 THEN <<n>> ELSE Digits(n \div 10) \o <<n % 10>>

Fmt03d(n) ==
    LET ds == Digits(n)
    IN  IF Len(ds) >= 3 THEN ds ELSE [i \in 1..(3 - Len(ds)) |-> 0] \o ds

\* The first file of a listing that can be read and mentions the run
\* (0 when there is none): the for ... break loops over rglob.
FirstMatchUnstable(files, run_name) ==
    LET hits == {i \in 1..Len(files) :
                    files[i].readable /\ Contains(files[i].mentions, run_name)}
    IN  IF hits = {} THEN 0
        ELSE IF nreads % 2 = 1 THEN CHOOSE i \in hits : \A j \in hits : i <= j
        ELSE CHOOSE i \in hits : \A j \in hits : i >= j

FirstMatchLast(files, run_name) ==
    LET hits == {i \in 1..Len(files) :
                    files[i].readable /\ Contains(files[i].mentions, run_name)}
    IN  IF hits = {} THEN 0 ELSE CHOOSE i \in hits : \A j \in hits : i >= j

FirstMatch(files, run_name) ==
    LET hits == {i \in 1..Len(files) :
                    files[i].readable /\ Contains(files[i].mentions, run_name)}
    IN  IF hits = {} THEN 0 ELSE CHOOSE i \in hits : \A j \in hits : i <= j

\* The task id of a job log: from the file name (patterns 1 and 2), else
\* from the name of its directory (pattern 3), else None.
task_id_of_directory_first(log) ==
    IF log.dir.jt THEN Some(log.dir.task)
    ELSE IF log.name.jt THEN Some(log.name.task)
    ELSE None

task_id_of(log) ==
    IF log.name.jt THEN Some(log.name.task)
    ELSE IF log.dir.jt THEN Some(log.dir.task)
    ELSE None

\* hydra_run_dir / ".hydra" / "overrides.yaml" of a run directory.
ReadOverridesAt(M, ts, dirname) ==
    IF <<ts, dirname>> \in DOMAIN M.overrides
    THEN (IF M.overrides[<<ts, dirname>>].readable
          THEN Some(M.overrides[<<ts, dirname>>].text) ELSE None)
    ELSE None

\* find_hydra_overrides(tb_run_name, hydra_multirun_root, log_root_dir).
\* M.logs lists the *.out files under .submitit/*/ in rglob order.
find_hydra_overrides(tb_run_name, root_set, M) ==
    IF ~root_set \/ ~M.isdir THEN None
    ELSE
    LET pass1 == SelectSeq(M.logs, LAMBDA f : f.name.log)
        m1 == FirstMatch(pass1, tb_run_name)
        m2 == FirstMatch(M.logs, tb_run_name)
    IN  IF m1 = 0 /\ m2 = 0 THEN None
        ELSE
        LET submitit_log == IF m1 # 0 THEN pass1[m1] ELSE M.logs[m2]
            task_id == task_id_of(submitit_log)
        IN  IF task_id = None THEN None
            ELSE
            LET ts == submitit_log.ts
                plain == task_id[1]
                padded == Fmt03d(IntOf(plain))
            IN  IF <<ts, plain>> \in M.rundirs THEN ReadOverridesAt(M, ts, plain)
                ELSE IF <<ts, padded>> \in M.rundirs
                     THEN ReadOverridesAt(M, ts, padded)
                ELSE None

\* The result of one time-directory whose log matched: overrides.yaml,
\* else config.yaml, else None.
ConfigOf(job_dir) ==
    IF job_dir.overrides # None
    THEN (IF job_dir.overrides[1].readable THEN Some(job_dir.overrides[1].text) ELSE None)
    ELSE IF job_dir.config # None
    THEN (IF job_dir.config[1].readable THEN Some(job_dir.config[1].text) ELSE None)
    ELSE None

\* The time-directories in iteration order: date by date.
JobDirsInOrder(S) ==
    FoldSeq(LAMBDA acc, date : IF date.isdir THEN acc \o date.times ELSE acc,
            <<>>, S.dates)

LogMatches(job_dir, run_name) ==
    /\ job_dir.isdir
    /\ \E i \in 1..Len(job_dir.logs) :
          /\ job_dir.logs[i].isfile /\ job_dir.logs[i].readable
          /\ Contains(job_dir.logs[i].mentions, run_name)

\* find_hydra_overrides_single_run(tb_run_name, hydra_single_run_root, ...).
find_hydra_overrides_single_run_retries(tb_run_name, root_set, S) ==
    IF ~root_set \/ ~S.isdir THEN None
    ELSE
    LET dirs == JobDirsInOrder(S)
        hits == {i \in 1..Len(dirs) :
                    LogMatches(dirs[i], tb_run_name) /\ ConfigOf(dirs[i]) # None}
    IN  IF hits = {} THEN None
        ELSE ConfigOf(dirs[CHOOSE i \in hits : \A j \in hits : i <= j])

find_hydra_overrides_single_run(tb_run_name, root_set, S) ==
    IF ~root_set \/ ~S.isdir THEN None
    ELSE
    LET dirs == JobDirsInOrder(S)
        hits == {i \in 1..Len(dirs) : LogMatches(dirs[i], tb_run_name)}
    IN  IF hits = {} THEN None
        ELSE ConfigOf(dirs[CHOOSE i \in hits : \A j \in hits : i <= j])

\* Lines 215 and 221: date_dir.iterdir() stands outside every try and
\* raises for a date directory that cannot be listed.  The place of the
\* first such directory in the iteration (0: there is none).
FirstUnlistable(S) ==
    LET bad == {d \in 1..Len(S.dates) : S.dates[d].isdir /\ ~S.dates[d].listable}
    IN  IF bad = {} THEN 0 ELSE CHOOSE d \in bad : \A e \in bad : d <= e

\* find_hydra_overrides_single_run raises: the iteration gets to that
\* directory because no time-directory before it has a log with the name.
SingleRunRaises(tb_run_name, root_set, S) ==
    /\ root_set /\ S.isdir
    /\ FirstUnlistable(S) # 0
    /\ \A d \in 1..(FirstUnlistable(S) - 1) :
          S.dates[d].isdir
          => \A i \in 1..Len(S.dates[d].times) :
                 ~LogMatches(S.dates[d].times[i], tb_run_name)

\* if overrides_content: None and the empty text are both false.
Truthy(opt_text) == opt_text # None /\ opt_text[1] # ""

\* Step 8.1 applied to temp_cache.
MultirunOverridesKeepsEmpty(temp_cache, cfg, hy) ==
    [run \in DOMAIN temp_cache |->
        LET overrides_content == find_hydra_overrides(run, cfg.multirun, hy.multirun)
        IN  IF cfg.multirun /\ overrides_content # None
            THEN [temp_cache[run] EXCEPT !.hydra_overrides = overrides_content]
            ELSE temp_cache[run]]

MultirunOverrides(temp_cache, cfg, hy) ==
    [run \in DOMAIN temp_cache |->
        LET overrides_content == find_hydra_overrides(run, cfg.multirun, hy.multirun)
        IN  IF cfg.multirun /\ Truthy(overrides_content)
            THEN [temp_cache[run] EXCEPT !.hydra_overrides = overrides_content]
            ELSE temp_cache[run]]

\* Step 8.2 applied to temp_cache.
SingleRunOverridesAlways(temp_cache, cfg, hy) ==
    [run \in DOMAIN temp_cache |->
        LET overrides_content_single ==
                find_hydra_overrides_single_run(run, cfg.single, hy.single)
        IN  IF cfg.single /\ Truthy(overrides_content_single)
            THEN [temp_cache[run] EXCEPT !.hydra_overrides = overrides_content_single]
            ELSE temp_cache[run]]

SingleRunOverrides(temp_cache, cfg, hy) ==
    [run \in DOMAIN temp_cache |->
        LET overrides_content_single ==
                find_hydra_overrides_single_run(run, cfg.single, hy.single)
        IN  IF /\ cfg.single
               /\ temp_cache[run].hydra_overrides = None
               /\ Truthy(overrides_content_single)
            THEN [temp_cache[run] EXCEPT !.hydra_overrides = overrides_content_single]
            ELSE temp_cache[run]]

\* Runs that step 8 adds to runs_to_keep.
RunsWithOverrides(temp_cache) ==
    {run \in DOMAIN temp_cache : temp_cache[run].hydra_overrides # None}

\* Step 9: final_temp_cache.
final_temp_cache_unfiltered(temp_cache, runs_to_keep) == temp_cache

final_temp_cache(temp_cache, runs_to_keep) ==
    [run \in DOMAIN temp_cache \cap runs_to_keep |-> temp_cache[run]]

----------------------------------------------------------------------------
(* The process layer: threads, the heap and the globals.                   *)

ThreadPool == <<"od1", "od2", "od3", "od4">>
OnDemand == {ThreadPool[i] : i \in 1..MaxOnDemand}
Builders == {"main", "bg"} \cup OnDemand

\* The Thread objects start_background_refresh can make.
BackgroundThreads == {"bg", "bg2"}
Handlers == {"h1"}

BuildPcs == {"b_read", "b_init", "b_clear_time", "b_publish", "b_time"}

\* Locals of a builder thread outside preload_all_runs_unified.
NoLocals == [temp |-> 0, rd |-> None, keep |-> {}, bid |-> 0]

\* Locals of an idle request handler.
NoRequest == [op |-> "none", arg |-> <<>>, ref |-> 0, snap |-> None, mark |-> 0]

\* A dict object on the heap: its items and the build that last wrote it
\* (0: the module-level {}).
Dict(data, bid) == [data |-> data, bid |-> bid]

\* Reference counting: an object lives while a global or a local names it.
Live(rdc, l, r) ==
    ({rdc} \cup {l[t].temp : t \in DOMAIN l} \cup {r[h].ref : h \in Handlers}) \ {0}

Collect(o, rdc, l, r) == [id \in DOMAIN o \cap Live(rdc, l, r) |-> o[id]]

\* The identity of a freshly created dict: "temp_cache = {}" and the dict
\* comprehension of step 9 bind the local to a new object, never to one
\* that exists.  The k-th dict of build bid (build 0: module level).
NewDictAliased(bid, k) == RUN_DATA_CACHE

NewDict(bid, k) == 2 * bid + k + 1

\* The history kept for the dicts that are still alive and for the copies
\* that handlers hold.
Remember(b, o, r) ==
    [n \in DOMAIN b \cap ({o[id].bid : id \in DOMAIN o}
                            \cup {r[h].snap[1].bid :
                                     h \in {g \in Handlers : r[g].snap # None}})
        |-> b[n]]

\* The heap after binding id to a dict.
Store(o, id, d) == [i \in DOMAIN o \cup {id} |-> IF i = id THEN d ELSE o[i]]

\* Where a builder thread continues when preload_all_runs_unified returns.
ReturnPc(t) ==
    IF t = "main" THEN "m_start_bg"
    ELSE IF t \in BackgroundThreads THEN "bg_wait" ELSE "idle"

BuildInProgress(t) == pc[t] \in BuildPcs

\* Thread.is_alive(): started and not yet ended.
is_alive(t) == pc[t] \notin {"idle", "bg_stopped"}

\* return, also from the except clauses of preload_all_runs_unified: the
\* locals die.
Leave(t) ==
    /\ pc' = [pc EXCEPT ![t] = ReturnPc(t)]
    /\ loc' = [loc EXCEPT ![t] = NoLocals]
    /\ objs' = Collect(objs, RUN_DATA_CACHE, loc', req)
    /\ built' = Remember(built, objs', req)

----------------------------------------------------------------------------
(* preload_all_runs_unified, statement group by statement group, run by    *)
(* builder thread t.  Statements that touch only locals are grouped with   *)
(* the next statement that reads the files or writes a dict or a global.   *)

\* Lines 292-296: LOG_ROOT_DIR is not a directory; the cycle is skipped.
BuildInvalidLogdir(t) ==
    /\ pc[t] = "b_read"
    /\ ~source.isdir
    /\ Leave(t)
    /\ UNCHANGED <<RUN_DATA_CACHE, CACHE_LOAD_TIME, source, hydra,
                   stop_event, background_thread, config, req, nreads,
                   nchanges>>

\* Lines 300-310 when SummaryReader raises, lines 502-509: the except
\* clause logs and the function returns.
BuildReadFailsClears(t) ==
    /\ pc[t] = "b_read"
    /\ source.isdir /\ source.raises
    /\ LET id == NewDict(0, 1)
       IN  /\ RUN_DATA_CACHE' = id
           /\ pc' = [pc EXCEPT ![t] = ReturnPc(t)]
           /\ loc' = [loc EXCEPT ![t] = NoLocals]
           /\ objs' = Collect(Store(objs, id, Dict(EmptyDict, 0)), id, loc', req)
    /\ UNCHANGED <<CACHE_LOAD_TIME, source, hydra, stop_event,
                   background_thread, config, req, nreads, nchanges, built>>

\* The exception leaves background_refresh_task and ends its thread.
BuildReadFailsEndsThread(t) ==
    /\ pc[t] = "b_read"
    /\ source.isdir /\ source.raises
    /\ pc' = [pc EXCEPT ![t] = IF t = "bg" THEN "bg_stopped" ELSE ReturnPc(t)]
    /\ loc' = [loc EXCEPT ![t] = NoLocals]
    /\ objs' = Collect(objs, RUN_DATA_CACHE, loc', req)
    /\ built' = Remember(built, objs', req)
    /\ UNCHANGED <<RUN_DATA_CACHE, CACHE_LOAD_TIME, source, hydra,
                   stop_event, background_thread, config, req, nreads,
                   nchanges>>

BuildReadFails(t) ==
    /\ pc[t] = "b_read"
    /\ source.isdir /\ source.raises
    /\ Leave(t)
    /\ UNCHANGED <<RUN_DATA_CACHE, CACHE_LOAD_TIME, source, hydra,
                   stop_event, background_thread, config, req, nreads,
                   nchanges>>

\* Lines 298-312: temp_cache = {}, then reader.scalars and reader.hparams
\* of the files as they are now.
BuildRead(t) ==
    /\ pc[t] = "b_read"
    /\ source.isdir /\ ~source.raises
    /\ nreads < MaxBuilds
    /\ nreads' = nreads + 1
    /\ LET id == NewDict(nreads + 1, 0)
           l2 == [loc EXCEPT ![t].temp = id,
                             ![t].rd = Some([scalars |-> source.scalars,
                                             hparams |-> source.hparams]),
                             ![t].bid = nreads + 1]
       IN  /\ loc' = l2
           /\ objs' = Collect(Store(objs, id, Dict(EmptyDict, 0)),
                              RUN_DATA_CACHE, l2, req)
    /\ pc' = [pc EXCEPT ![t] = "b_init"]
    /\ UNCHANGED <<RUN_DATA_CACHE, CACHE_LOAD_TIME, source, hydra,
                   stop_event, background_thread, config, req, nchanges,
                   built>>

\* The candidate names of steps 2 and 3, from the frames read and the
\* subdirectories as they are now.
CandidateNames(t) ==
    FallbackNames(all_base_run_names(loc[t].rd[1].scalars, loc[t].rd[1].hparams),
                  config.multirun, source)

\* Lines 314-330 when Path(...).parts[0] raises: the except clause.
BuildNamesFail(t) ==
    /\ pc[t] = "b_init"
    /\ Step2Raises(loc[t].rd[1].hparams)
    /\ Leave(t)
    /\ UNCHANGED <<RUN_DATA_CACHE, CACHE_LOAD_TIME, source, hydra,
                   stop_event, background_thread, config, req, nreads,
                   nchanges>>

\* Lines 342-344: no candidate name; the global is bound to a new empty dict.
BuildClearKeeps(t) ==
    /\ pc[t] = "b_init"
    /\ ~Step2Raises(loc[t].rd[1].hparams)
    /\ CandidateNames(t) = {}
    /\ Leave(t)
    /\ UNCHANGED <<RUN_DATA_CACHE, CACHE_LOAD_TIME, source, hydra,
                   stop_event, background_thread, config, req, nreads,
                   nchanges>>

BuildClear(t) ==
    /\ pc[t] = "b_init"
    /\ ~Step2Raises(loc[t].rd[1].hparams)
    /\ CandidateNames(t) = {}
    /\ LET id == NewDict(loc[t].bid, 1)
       IN  /\ RUN_DATA_CACHE' = id
           /\ objs' = Collect(Store(objs, id, Dict(EmptyDict, loc[t].bid)),
                              id, loc, req)
    /\ built' = Remember(Store(built, loc[t].bid, EmptyDict), objs', req)
    /\ pc' = [pc EXCEPT ![t] = "b_clear_time"]
    /\ UNCHANGED <<CACHE_LOAD_TIME, source, hydra, stop_event,
                   background_thread, config, loc, req, nreads, nchanges>>

\* Lines 345-347: CACHE_LOAD_TIME of the cycle that cleared the cache.
BuildClearTime(t) ==
    /\ pc[t] = "b_clear_time"
    /\ CACHE_LOAD_TIME' = loc[t].bid
    /\ Leave(t)
    /\ UNCHANGED <<RUN_DATA_CACHE, source, hydra, stop_event,
                   background_thread, config, req, nreads, nchanges>>

\* Lines 358-386 when .astype(int) raises: the except clause.
BuildScalarsFail(t) ==
    /\ pc[t] = "b_init"
    /\ ~Step2Raises(loc[t].rd[1].hparams)
    /\ CandidateNames(t) # {}
    /\ Step5Raises(loc[t].rd[1].scalars)
    /\ Leave(t)
    /\ UNCHANGED <<RUN_DATA_CACHE, CACHE_LOAD_TIME, source, hydra,
                   stop_event, background_thread, config, req, nreads,
                   nchanges>>

\* temp_cache after steps 4 to 8: one pre-initialised entry per candidate
\* name, scalars, hparams, then the multirun pass and the single-run pass.
FilledTempCache(t) ==
    LET df == loc[t].rd[1]
        with_scalars == ProcessScalars(InitTempCache(CandidateNames(t)), df.scalars)
        with_hparams == ProcessHParams(with_scalars, df.hparams)
    IN  SingleRunOverrides(MultirunOverrides(with_hparams, config, hydra),
                           config, hydra)

\* Step 8.2 raises: find_hydra_overrides_single_run is called for a run
\* that step 8.1 left without overrides, and it raises.
Step8Raises(t) ==
    LET df == loc[t].rd[1]
        with_scalars == ProcessScalars(InitTempCache(CandidateNames(t)), df.scalars)
        with_multirun == MultirunOverrides(ProcessHParams(with_scalars, df.hparams),
                                           config, hydra)
    IN  /\ config.single
        /\ \E run \in DOMAIN with_multirun :
              /\ with_multirun[run].hydra_overrides = None
              /\ SingleRunRaises(run, config.single, hydra.single)

\* Lines 467-481 when find_hydra_overrides_single_run raises: the except
\* clause.
BuildOverridesFail(t) ==
    /\ pc[t] = "b_init"
    /\ ~Step2Raises(loc[t].rd[1].hparams)
    /\ CandidateNames(t) # {}
    /\ ~Step5Raises(loc[t].rd[1].scalars)
    /\ Step8Raises(t)
    /\ Leave(t)
    /\ UNCHANGED <<RUN_DATA_CACHE, CACHE_LOAD_TIME, source, hydra,
                   stop_event, background_thread, config, req, nreads,
                   nchanges>>

\* runs_to_keep after steps 6 to 8.
runs_to_keep(t) ==
    LET df == loc[t].rd[1]
        with_scalars == ProcessScalars(InitTempCache(CandidateNames(t)), df.scalars)
    IN  RunsWithScalars(with_scalars)
            \cup RunsWithHParams(with_scalars, df.hparams)
            \cup RunsWithOverrides(FilledTempCache(t))

\* Lines 349-481 (steps 4 to 8) write the entries of temp_cache.
BuildFillPublishesEarly(t) ==
    /\ pc[t] = "b_init"
    /\ ~Step2Raises(loc[t].rd[1].hparams)
    /\ CandidateNames(t) # {}
    /\ ~Step5Raises(loc[t].rd[1].scalars)
    /\ ~Step8Raises(t)
    /\ RUN_DATA_CACHE' = loc[t].temp
    /\ objs' = Collect(Store(objs, loc[t].temp, Dict(FilledTempCache(t), loc[t].bid)),
                       loc[t].temp, loc, req)
    /\ loc' = [loc EXCEPT ![t].keep = runs_to_keep(t)]
    /\ pc' = [pc EXCEPT ![t] = "b_publish"]
    /\ UNCHANGED <<CACHE_LOAD_TIME, source, hydra, stop_event,
                   background_thread, config, req, nreads, nchanges, built>>

BuildFill(t) ==
    /\ pc[t] = "b_init"
    /\ ~Step2Raises(loc[t].rd[1].hparams)
    /\ CandidateNames(t) # {}
    /\ ~Step5Raises(loc[t].rd[1].scalars)
    /\ ~Step8Raises(t)
    /\ objs' = Store(objs, loc[t].temp, Dict(FilledTempCache(t), loc[t].bid))
    /\ loc' = [loc EXCEPT ![t].keep = runs_to_keep(t)]
    /\ pc' = [pc EXCEPT ![t] = "b_publish"]
    /\ UNCHANGED <<RUN_DATA_CACHE, CACHE_LOAD_TIME, source, hydra,
                   stop_event, background_thread, config, req, nreads,
                   nchanges, built>>

\* Lines 483-495 (steps 9 and 10): final_temp_cache is a new dict,
\* temp_cache is rebound to it, then RUN_DATA_CACHE = temp_cache.
BuildPublish(t) ==
    /\ pc[t] = "b_publish"
    /\ LET id == NewDict(loc[t].bid, 1)
           final == final_temp_cache(objs[loc[t].temp].data, loc[t].keep)
           l2 == [loc EXCEPT ![t].temp = id]
       IN  /\ loc' = l2
           /\ RUN_DATA_CACHE' = id
           /\ objs' = Collect(Store(objs, id, Dict(final, loc[t].bid)), id, l2, req)
           /\ built' = Remember(Store(built, loc[t].bid, final), objs', req)
    /\ pc' = [pc EXCEPT ![t] = "b_time"]
    /\ UNCHANGED <<CACHE_LOAD_TIME, source, hydra, stop_event,
                   background_thread, config, req, nreads, nchanges>>

\* Lines 496-500: CACHE_LOAD_TIME = time.time() - start_time, then return.
BuildTime(t) ==
    /\ pc[t] = "b_time"
    /\ CACHE_LOAD_TIME' = loc[t].bid
    /\ Leave(t)
    /\ UNCHANGED <<RUN_DATA_CACHE, source, hydra, stop_event,
                   background_thread, config, req, nreads, nchanges>>

preload_all_runs_unified(t) ==
    \/ BuildInvalidLogdir(t)
    \/ BuildReadFails(t)
    \/ BuildRead(t)
    \/ BuildNamesFail(t)
    \/ BuildClear(t)
    \/ BuildClearTime(t)
    \/ BuildScalarsFail(t)
    \/ BuildOverridesFail(t)
    \/ BuildFill(t)
    \/ BuildPublish(t)
    \/ BuildTime(t)

----------------------------------------------------------------------------
(* main, the background refresh thread and the on-demand threads.          *)

\* Lines 753-781: sys.exit(1) without a log directory; a Hydra root that is
\* not a directory is reset to None.
MainExitOnlyWarns ==
    /\ pc["main"] = "m_logdir"
    /\ ~source.isdir
    /\ pc' = [pc EXCEPT !["main"] = "b_read"]
    /\ UNCHANGED <<RUN_DATA_CACHE, CACHE_LOAD_TIME, objs, source, hydra,
                   stop_event, background_thread, config, loc, req, nreads,
                   nchanges, built>>

MainExit ==
    /\ pc["main"] = "m_logdir"
    /\ ~source.isdir
    /\ pc' = [pc EXCEPT !["main"] = "exited"]
    /\ UNCHANGED <<RUN_DATA_CACHE, CACHE_LOAD_TIME, objs, source, hydra,
                   stop_event, background_thread, config, loc, req, nreads,
                   nchanges, built>>

MainLogdir ==
    /\ pc["main"] = "m_logdir"
    /\ source.isdir
    /\ pc' = [pc EXCEPT !["main"] = "b_read"]
    /\ config' = [config EXCEPT !.multirun = @ /\ hydra.multirun.isdir,
                                !.single = @ /\ hydra.single.isdir]
    /\ UNCHANGED <<RUN_DATA_CACHE, CACHE_LOAD_TIME, objs, source, hydra,
                   stop_event, background_thread, loc, req, nreads, nchanges,
                   built>>

\* Lines 799-828: start_background_refresh() when the interval is positive,
\* then app.run().  It is the first call: background_thread is None and
\* stop_event is clear, so that stop_event.clear() changes nothing.
MainStartBackgroundAlways ==
    /\ pc["main"] = "m_start_bg"
    /\ pc' = [pc EXCEPT !["main"] = "m_serve", !["bg"] = "bg_loop"]
    /\ background_thread' = Some("bg")
    /\ UNCHANGED <<RUN_DATA_CACHE, CACHE_LOAD_TIME, objs, source, hydra,
                   stop_event, config, loc, req, nreads, nchanges, built>>

MainStartBackground ==
    /\ pc["main"] = "m_start_bg"
    /\ pc' = [pc EXCEPT !["main"] = "m_serve",
                        !["bg"] = IF config.interval > 0 THEN "bg_loop" ELSE @]
    /\ background_thread' = IF config.interval > 0 THEN Some("bg") ELSE background_thread
    /\ UNCHANGED <<RUN_DATA_CACHE, CACHE_LOAD_TIME, objs, source, hydra,
                   stop_event, config, loc, req, nreads, nchanges, built>>

\* Flask serves requests once main has reached app.run(); no lock is taken.
ServingBetweenBuilds ==
    pc["main"] = "m_serve" /\ \A t \in Builders : ~BuildInProgress(t)

Serving == pc["main"] = "m_serve"

\* background_refresh_task, line 516: "while not stop_event.is_set()" lets
\* the next call of preload_all_runs_unified pass.
BackgroundLoopIgnoresStop ==
    /\ pc["bg"] = "bg_loop"
    /\ pc' = [pc EXCEPT !["bg"] = "b_read"]
    /\ UNCHANGED <<RUN_DATA_CACHE, CACHE_LOAD_TIME, objs, source, hydra,
                   stop_event, background_thread, config, loc, req, nreads,
                   nchanges, built>>

BackgroundLoop ==
    /\ pc["bg"] = "bg_loop"
    /\ ~stop_event
    /\ pc' = [pc EXCEPT !["bg"] = "b_read"]
    /\ UNCHANGED <<RUN_DATA_CACHE, CACHE_LOAD_TIME, objs, source, hydra,
                   stop_event, background_thread, config, loc, req, nreads,
                   nchanges, built>>

\* background_refresh_task: stop_event.wait(REFRESH_INTERVAL_SECONDS) times out.
BackgroundWait ==
    /\ pc["bg"] = "bg_wait"
    /\ pc' = [pc EXCEPT !["bg"] = "bg_loop"]
    /\ UNCHANGED <<RUN_DATA_CACHE, CACHE_LOAD_TIME, objs, source, hydra,
                   stop_event, background_thread, config, loc, req, nreads,
                   nchanges, built>>

\* background_refresh_task, lines 516 and 523: the loop test finds the event
\* set and the thread ends.
BackgroundStop ==
    /\ pc["bg"] = "bg_loop"
    /\ stop_event
    /\ pc' = [pc EXCEPT !["bg"] = "bg_stopped"]
    /\ UNCHANGED <<RUN_DATA_CACHE, CACHE_LOAD_TIME, objs, source, hydra,
                   stop_event, background_thread, config, loc, req, nreads,
                   nchanges, built>>

\* stop_background_refresh, lines 537-539, run by atexit in the main thread
\* when the server ends: registered only if the interval is positive.
StopSignal ==
    /\ pc["main"] = "m_serve"
    /\ config.interval > 0
    /\ background_thread # None /\ is_alive(background_thread[1])
    /\ stop_event' = TRUE
    /\ pc' = [pc EXCEPT !["main"] = "m_join"]
    /\ UNCHANGED <<RUN_DATA_CACHE, CACHE_LOAD_TIME, objs, source, hydra,
                   background_thread, config, loc, req, nreads, nchanges,
                   built>>

\* Whether background_thread.join(timeout=10) of line 540 can return: the
\* thread has ended, or the ten seconds are over, which they can be at any
\* point of a build.
JoinCanReturn == TRUE

\* stop_background_refresh, lines 540-545: join returns and the function
\* returns.  The daemon threads may still take steps until the interpreter
\* is gone.
StopJoin ==
    /\ pc["main"] = "m_join"
    /\ JoinCanReturn
    /\ background_thread' = None
    /\ pc' = [pc EXCEPT !["main"] = "m_stopped"]
    /\ UNCHANGED <<RUN_DATA_CACHE, CACHE_LOAD_TIME, objs, source, hydra,
                   stop_event, config, loc, req, nreads, nchanges, built>>

----------------------------------------------------------------------------
(* The request handlers.  A handler keeps what its function has in its     *)
(* locals; the response is what the return statement makes of them.        *)

\* Run names in ascending string order
\* ("" < "r1" < "r1/ts" < "r2" < "r3" < "r4" < "zz").
NamesInOrder ==
    << <<>>, <<"r1">>, <<"r1", "ts">>, <<"r2">>, <<"r3">>, <<"r4">>, <<"zz">> >>

sorted(keys) == SelectSeq(NamesInOrder, LAMBDA n : n \in keys)

\* _get_runs_info_from_cache(cache_to_inspect)
get_runs_info_one_flag(cache) ==
    LET names == sorted(DOMAIN cache)
    IN  [i \in 1..Len(names) |->
            [name |-> names[i],
             has_overrides |-> Truthy(cache[names[i]].hydra_overrides),
             has_hparams |-> Truthy(cache[names[i]].hydra_overrides)]]

get_runs_info_from_cache(cache) ==
    LET names == sorted(DOMAIN cache)
    IN  [i \in 1..Len(names) |->
            [name |-> names[i],
             has_overrides |-> Truthy(cache[names[i]].hydra_overrides),
             has_hparams |-> cache[names[i]].hparams # None]]

\* A response: status, body, and the build whose dict the body was read from.
Response(status, body, bid) == [status |-> status, body |-> body, bid |-> bid]

\* get_runs, line 564: RUN_DATA_CACHE.copy().
GetRunsCopy(h) ==
    /\ Serving /\ pc[h] = "idle"
    /\ req' = [req EXCEPT ![h] = [NoRequest EXCEPT !.op = "runs",
                                                    !.snap = Some(objs[RUN_DATA_CACHE])]]
    /\ pc' = [pc EXCEPT ![h] = "runs_ret"]
    /\ UNCHANGED <<RUN_DATA_CACHE, CACHE_LOAD_TIME, objs, source, hydra,
                   stop_event, background_thread, config, loc, nreads,
                   nchanges, built>>

\* get_runs, lines 565-567: the listing of the copy.
GetRunsResponse(h) ==
    Response(200, get_runs_info_from_cache(req[h].snap[1].data), req[h].snap[1].bid)

\* The handler returns; its locals die.
Return(h) ==
    /\ pc' = [pc EXCEPT ![h] = "idle"]
    /\ req' = [req EXCEPT ![h] = NoRequest]
    /\ objs' = Collect(objs, RUN_DATA_CACHE, loc, req')
    /\ built' = Remember(built, objs', req')
    /\ UNCHANGED <<RUN_DATA_CACHE, CACHE_LOAD_TIME, source, hydra,
                   stop_event, background_thread, config, loc, nreads,
                   nchanges>>

GetRunsReturn(h) == pc[h] = "runs_ret" /\ Return(h)

\* get_data, lines 642-656: without runs the answer is 400 and the cache is
\* not looked at; else the global is read once.
GetDataStart(h, selected_runs) ==
    /\ Serving /\ pc[h] = "idle"
    /\ req' = [req EXCEPT ![h] = [NoRequest EXCEPT
                  !.op = "data", !.arg = selected_runs,
                  !.ref = IF selected_runs = <<>> THEN 0 ELSE RUN_DATA_CACHE]]
    /\ pc' = [pc EXCEPT ![h] = "data_ret"]
    /\ UNCHANGED <<RUN_DATA_CACHE, CACHE_LOAD_TIME, objs, source, hydra,
                   stop_event, background_thread, config, loc, nreads,
                   nchanges, built>>

\* d[key] = val
SetItemIn(d, key, val) == [k \in DOMAIN d \cup {key} |-> IF k = key THEN val ELSE d[k]]

\* One iteration of "for run_name in selected_runs" (lines 658-675).
AddRun(all_metrics_data, cache, run_name) ==
    LET run_scalars == IF run_name \in DOMAIN cache
                       THEN cache[run_name].scalars ELSE EmptyDict
        tags == {m \in DOMAIN run_scalars : run_scalars[m].steps # <<>>}
    IN  [m \in DOMAIN all_metrics_data \cup tags |->
            IF m \in tags
            THEN SetItemIn(IF m \in DOMAIN all_metrics_data
                           THEN all_metrics_data[m] ELSE EmptyDict,
                           run_name, run_scalars[m])
            ELSE all_metrics_data[m]]

\* all_metrics_data after the loop over selected_runs.
all_metrics_data_whole_cache(cache, selected_runs) ==
    FoldSeq(LAMBDA acc, run_name : AddRun(acc, cache, run_name),
            EmptyDict, SelectSeq(NamesInOrder, LAMBDA n : n \in DOMAIN cache))

all_metrics_data(cache, selected_runs) ==
    FoldSeq(LAMBDA acc, run_name : AddRun(acc, cache, run_name),
            EmptyDict, selected_runs)

\* get_data, lines 643-644 and 658-691.
GetDataResponse(h) ==
    IF req[h].arg = <<>> THEN Response(400, "No runs specified", 0)
    ELSE Response(200, all_metrics_data(objs[req[h].ref].data, req[h].arg),
                  objs[req[h].ref].bid)

GetDataReturn(h) == pc[h] = "data_ret" /\ Return(h)

\* get_hparams / get_overrides, lines 572-579 and 596-602: without a run
\* the answer is 400; else run_data = RUN_DATA_CACHE.get(run_name).
Lookup(h, op, run_arg) ==
    /\ Serving /\ pc[h] = "idle"
    /\ req' = [req EXCEPT ![h] = [NoRequest EXCEPT
                  !.op = op, !.arg = run_arg,
                  !.ref = IF run_arg = None THEN 0 ELSE RUN_DATA_CACHE]]
    /\ pc' = [pc EXCEPT ![h] = "lookup_ret"]
    /\ UNCHANGED <<RUN_DATA_CACHE, CACHE_LOAD_TIME, objs, source, hydra,
                   stop_event, background_thread, config, loc, nreads,
                   nchanges, built>>

get_hparams(h, run_arg) == Lookup(h, "hparams", run_arg)

get_overrides(h, run_arg) == Lookup(h, "overrides", run_arg)

\* Lines 580-590 and 603-613: 404 for an unknown run and for a field that
\* is None, else the field.
LookupResponseUnchecked(h) ==
    IF req[h].arg = None THEN Response(400, "No run specified", 0)
    ELSE
    LET cache == objs[req[h].ref]
        run_name == req[h].arg[1]
    IN  IF run_name \notin DOMAIN cache.data
        THEN Response(500, "KeyError", cache.bid)
        ELSE
        LET content == IF req[h].op = "hparams"
                       THEN cache.data[run_name].hparams
                       ELSE cache.data[run_name].hydra_overrides
        IN  IF content = None THEN Response(500, "TypeError", cache.bid)
            ELSE Response(200, content[1], cache.bid)

LookupResponse(h) ==
    IF req[h].arg = None THEN Response(400, "No run specified", 0)
    ELSE
    LET cache == objs[req[h].ref]
        run_name == req[h].arg[1]
    IN  IF run_name \notin DOMAIN cache.data
        THEN Response(404, "not found in cache", cache.bid)
        ELSE
        LET content == IF req[h].op = "hparams"
                       THEN cache.data[run_name].hparams
                       ELSE cache.data[run_name].hydra_overrides
        IN  IF content = None THEN Response(404, "none found", cache.bid)
            ELSE Response(200, content[1], cache.bid)

LookupReturn(h) == pc[h] = "lookup_ret" /\ Return(h)

\* trigger_refresh_and_return_cached_runs, lines 619-621: the copy and the
\* listing made from it.
TriggerCopy(h) ==
    /\ Serving /\ pc[h] = "idle"
    /\ req' = [req EXCEPT ![h] = [NoRequest EXCEPT !.op = "refresh",
                                                    !.snap = Some(objs[RUN_DATA_CACHE])]]
    /\ pc' = [pc EXCEPT ![h] = "tr_spawn"]
    /\ UNCHANGED <<RUN_DATA_CACHE, CACHE_LOAD_TIME, objs, source, hydra,
                   stop_event, background_thread, config, loc, nreads,
                   nchanges, built>>

\* The first thread of the pool that is not running (0: none is left).
FirstIdle ==
    LET idle == {i \in 1..MaxOnDemand : pc[ThreadPool[i]] = "idle"}
    IN  IF idle = {} THEN 0 ELSE CHOOSE i \in idle : \A j \in idle : i <= j

\* Lines 623-633: refresh_thread.start(), whatever other threads are doing;
\* the new thread runs do_refresh_on_demand.  mark remembers how many reads
\* of the log source had been made when the thread was started.
TriggerSpawn(h) ==
    /\ pc[h] = "tr_spawn"
    /\ FirstIdle # 0
    /\ pc' = [pc EXCEPT ![h] = "tr_ret", ![ThreadPool[FirstIdle]] = "b_read"]
    /\ req' = [req EXCEPT ![h].mark = nreads]
    /\ UNCHANGED <<RUN_DATA_CACHE, CACHE_LOAD_TIME, objs, source, hydra,
                   stop_event, background_thread, config, loc, nreads,
                   nchanges, built>>

\* Line 635: return jsonify(runs_to_return).
TriggerResponseLate(h) ==
    Response(200, get_runs_info_from_cache(objs[RUN_DATA_CACHE].data),
             objs[RUN_DATA_CACHE].bid)

TriggerResponse(h) ==
    Response(200, get_runs_info_from_cache(req[h].snap[1].data), req[h].snap[1].bid)

TriggerReturn(h) == pc[h] = "tr_ret" /\ Return(h)

----------------------------------------------------------------------------
(* The contents of the log root and of the Hydra roots used by the         *)
(* process layer.                                                          *)

Row(dir_name, tag, step, value, wall_time) ==
    [dir_name |-> dir_name, tag |-> tag, step |-> step, value |-> value,
     wall_time |-> wall_time]

HRow(dir_name, tag, value, wall_time) ==
    [dir_name |-> dir_name, tag |-> tag, value |-> value, wall_time |-> wall_time]

LogRoot(scalars, hparams, subdirs) ==
    [isdir |-> TRUE, raises |-> FALSE, scalars |-> scalars, hparams |-> hparams,
     subdirs |-> subdirs]

\* One run with one tag logged out of step order, and its hyperparameters.
SrcA ==
    LogRoot(<< Row(<<"r1">>, "loss", Num(4), Num(9), Num(20)),
               Row(<<"r1">>, "loss", Num(0), Num(5), Num(22)) >>,
            << HRow(<<"r1", "ts">>, "lr", "0.1", 5) >>,
            {<<"r1">>})

\* The same run later, with a second tag, a second run, and a third run
\* whose only record has a NaN value.
SrcB ==
    LogRoot(<< Row(<<"r1">>, "loss", Num(4), Num(9), Num(20)),
               Row(<<"r1">>, "loss", Num(0), Num(5), Num(22)),
               Row(<<"r1">>, "acc", Num(0), Num(1), Num(23)),
               Row(<<"r2">>, "loss", Num(0), Num(3), Num(24)),
               Row(<<"r3">>, "loss", Num(0), NaN, Num(25)) >>,
            << HRow(<<"r1", "ts">>, "lr", "0.1", 5) >>,
            {<<"r1">>, <<"r2">>, <<"r3">>})

\* A log root in which tbparse finds no event at all.
SrcEmpty == LogRoot(<<>>, <<>>, {})

\* A log root with a malformed event file, and one that has been removed.
SrcRaises == [SrcA EXCEPT !.raises = TRUE]
SrcGone == [SrcEmpty EXCEPT !.isdir = FALSE]

SpecSources == {SrcB, SrcEmpty, SrcRaises, SrcGone}

File(text) == [text |-> text, readable |-> TRUE]

\* A multirun root with two job logs that mention r1 (task 7, whose run
\* directory has the padded name, then task 8) and one that mentions r2
\* (task 5, whose overrides.yaml is empty), and a single-run root with
\* two job directories whose logs mention r2.  The sequences are the
\* listing orders of rglob and iterdir, which are those of the directories
\* as long as the files do not change.
SpecHydra ==
    [multirun |->
        [isdir |-> TRUE,
         logs |-> << [ts |-> "d1/t1",
                      dir |-> [jt |-> FALSE, task |-> <<>>],
                      name |-> [jt |-> TRUE, log |-> TRUE, task |-> <<7>>],
                      readable |-> TRUE,
                      mentions |-> {<<"r1">>}],
                     [ts |-> "d1/t1",
                      dir |-> [jt |-> FALSE, task |-> <<>>],
                      name |-> [jt |-> TRUE, log |-> TRUE, task |-> <<8>>],
                      readable |-> TRUE,
                      mentions |-> {<<"r1">>}],
                     [ts |-> "d1/t1",
                      dir |-> [jt |-> FALSE, task |-> <<>>],
                      name |-> [jt |-> TRUE, log |-> TRUE, task |-> <<5>>],
                      readable |-> TRUE,
                      mentions |-> {<<"r2">>}] >>,
         rundirs |-> {<<"d1/t1", <<0, 0, 7>>>>, <<"d1/t1", <<8>>>>,
                      <<"d1/t1", <<5>>>>},
         overrides |-> (<<"d1/t1", <<0, 0, 7>>>> :> File("lr=0.1")
                        @@ <<"d1/t1", <<8>>>> :> File("lr=0.2")
                        @@ <<"d1/t1", <<5>>>> :> File(""))],
     single |->
        [isdir |-> TRUE,
         dates |-> << [isdir |-> TRUE, listable |-> TRUE,
                       times |-> << [isdir |-> TRUE,
                                     logs |-> << [isfile |-> TRUE, readable |-> TRUE,
                                                  mentions |-> {<<"r2">>}] >>,
                                     overrides |-> None,
                                     config |-> Some(File("seed: 1"))],
                                    [isdir |-> TRUE,
                                     logs |-> << [isfile |-> TRUE, readable |-> TRUE,
                                                  mentions |-> {<<"r2">>}] >>,
                                     overrides |-> Some(File("seed: 2")),
                                     config |-> None] >>] >>]]

SpecConfigs == {[multirun |-> TRUE, single |-> TRUE, interval |-> 60]}

----------------------------------------------------------------------------
(* The server: main, then the background thread, the request handlers and  *)
(* the on-demand threads, with the files changing underneath.              *)

Init ==
    /\ RUN_DATA_CACHE = 1
    /\ CACHE_LOAD_TIME = 0
    /\ objs = (1 :> Dict(EmptyDict, 0))
    /\ source \in SpecSources
    /\ hydra = SpecHydra
    /\ stop_event = FALSE
    /\ background_thread = None
    /\ config \in SpecConfigs
    /\ pc = [t \in Builders \cup Handlers |-> IF t = "main" THEN "m_logdir" ELSE "idle"]
    /\ loc = [t \in Builders |-> NoLocals]
    /\ req = [h \in Handlers |-> NoRequest]
    /\ nreads = 0
    /\ nchanges = 0
    /\ built = <<>>

\* The files under LOG_ROOT_DIR change while the server runs.
ChangeSource ==
    /\ nchanges < MaxChanges
    /\ nchanges' = nchanges + 1
    /\ source' \in SpecSources \ {source}
    /\ UNCHANGED <<RUN_DATA_CACHE, CACHE_LOAD_TIME, objs, hydra, stop_event,
                   background_thread, config, pc, loc, req, nreads, built>>

RunArgs == {None, Some(<<"r1">>)}
DataArgs == {<<>>, << <<"r1">>, <<"zz">> >>}

Next ==
    \/ MainExit
    \/ MainLogdir
    \/ MainStartBackground
    \/ BackgroundLoop
    \/ BackgroundWait
    \/ \E t \in Builders : BuildInvalidLogdir(t)
    \/ \E t \in Builders : BuildReadFails(t)
    \/ \E t \in Builders : BuildRead(t)
    \/ \E t \in Builders : BuildClear(t)
    \/ \E t \in Builders : BuildClearTime(t)
    \/ \E t \in Builders : BuildFill(t)
    \/ \E t \in Builders : BuildPublish(t)
    \/ \E t \in Builders : BuildTime(t)
    \/ \E h \in Handlers : GetRunsCopy(h)
    \/ \E h \in Handlers : GetRunsReturn(h)
    \/ \E h \in Handlers : \E a \in DataArgs : GetDataStart(h, a)
    \/ \E h \in Handlers : GetDataReturn(h)
    \/ \E h \in Handlers : \E a \in RunArgs : get_hparams(h, a)
    \/ \E h \in Handlers : \E a \in RunArgs : get_overrides(h, a)
    \/ \E h \in Handlers : LookupReturn(h)
    \/ \E h \in Handlers : TriggerCopy(h)
    \/ \E h \in Handlers : TriggerSpawn(h)
    \/ \E h \in Handlers : TriggerReturn(h)
    \/ ChangeSource

Spec == Init /\ [][Next]_vars

----------------------------------------------------------------------------
(* One build by the main thread over an arbitrary scalars frame: the       *)
(* records of a frame arrive in any order and with any of the cells of     *)
(* the palette.                                                            *)

\* The records a frame is made of: steps out of order, a fractional step,
\* a NaN value, a step that is not finite, a wall_time that is not finite,
\* a value that is not finite and a step that is not a number.
ScalarPalette ==
    { Row(<<"r1">>, "loss", Num(4), Num(9), Num(20)),
      Row(<<"r1">>, "loss", Num(0), Num(5), Num(22)),
      Row(<<"r1">>, "loss", Num(3), Num(1), Num(21)),
      Row(<<"r3">>, "loss", Num(2), NaN, Num(23)),
      Row(<<"r1">>, "acc", PosInf, Num(1), Num(24)),
      Row(<<"r2">>, "loss", Num(2), Num(3), PosInf),
      Row(<<"r1">>, "acc", Num(2), NegInf, Num(25)),
      Row(<<"r2">>, "loss", Str, Num(1), Num(26)) }

SeqsUpTo(S, n) == UNION {[1..k -> S] : k \in 0..n}

InitBuild ==
    /\ RUN_DATA_CACHE = 1
    /\ CACHE_LOAD_TIME = 0
    /\ objs = (1 :> Dict(EmptyDict, 0))
    /\ source \in {LogRoot(f, <<>>, {}) : f \in SeqsUpTo(ScalarPalette, MaxRecs)}
    /\ hydra = SpecHydra
    /\ stop_event = FALSE
    /\ background_thread = None
    /\ config \in SpecConfigs
    /\ pc = [t \in Builders \cup Handlers |-> IF t = "main" THEN "m_logdir" ELSE "idle"]
    /\ loc = [t \in Builders |-> NoLocals]
    /\ req = [h \in Handlers |-> NoRequest]
    /\ nreads = 0
    /\ nchanges = 0
    /\ built = <<>>

NextBuild ==
    \/ MainLogdir
    \/ BuildRead("main")
    \/ BuildClear("main")
    \/ BuildClearTime("main")
    \/ BuildScalarsFail("main")
    \/ BuildFill("main")
    \/ BuildPublish("main")
    \/ BuildTime("main")

SpecBuild == InitBuild /\ [][NextBuild]_vars

----------------------------------------------------------------------------
(* One build by the main thread, then requests, without background        *)
(* refresh: the frames, the hparams records and the configured Hydra       *)
(* roots vary.                                                             *)

\* The hparams records a frame is made of: two events of r1 (the later one
\* repeats a tag and adds one), one event of a run without scalars, one
\* event written to an event file that lies in the log root itself, whose
\* dir_name is the empty path, and one row of r2 that has no tag.
HParamPalette ==
    { HRow(<<"r1", "ts">>, "lr", "0.1", 5),
      HRow(<<"r2">>, NoTag, "7", 6),
      HRow(<<"r1", "ts2">>, "lr", "0.2", 9),
      HRow(<<"r1", "ts2">>, "bs", "32", 9),
      HRow(<<"r4">>, "lr", "0.3", 7),
      HRow(<<>>, "lr", "0.4", 3) }

ServeSources ==
    {LogRoot(f, h, {<<"r1">>, <<"r2">>, <<"r3">>}) :
        f \in {<<>>, SrcB.scalars}, h \in SeqsUpTo(HParamPalette, MaxHRecs)}

ServeConfigs ==
    {[multirun |-> a, single |-> b, interval |-> 0] : a, b \in BOOLEAN}

ServeRunArgs == {None, Some(<<"r1">>), Some(<<"r2">>), Some(<<"zz">>)}
ServeDataArgs ==
    {<<>>, << <<"r1">>, <<"zz">> >>, << <<"zz">> >>, << <<"r2">>, <<"r1">> >>}

InitServe ==
    /\ RUN_DATA_CACHE = 1
    /\ CACHE_LOAD_TIME = 0
    /\ objs = (1 :> Dict(EmptyDict, 0))
    /\ source \in ServeSources
    /\ hydra = SpecHydra
    /\ stop_event = FALSE
    /\ background_thread = None
    /\ config \in ServeConfigs
    /\ pc = [t \in Builders \cup Handlers |-> IF t = "main" THEN "m_logdir" ELSE "idle"]
    /\ loc = [t \in Builders |-> NoLocals]
    /\ req = [h \in Handlers |-> NoRequest]
    /\ nreads = 0
    /\ nchanges = 0
    /\ built = <<>>

NextServe ==
    \/ MainLogdir
    \/ BuildRead("main")
    \/ BuildNamesFail("main")
    \/ BuildClear("main")
    \/ BuildClearTime("main")
    \/ BuildFill("main")
    \/ BuildPublish("main")
    \/ BuildTime("main")
    \/ MainStartBackground
    \/ \E h \in Handlers : GetRunsCopy(h)
    \/ \E h \in Handlers : GetRunsReturn(h)
    \/ \E h \in Handlers : \E a \in ServeDataArgs : GetDataStart(h, a)
    \/ \E h \in Handlers : GetDataReturn(h)
    \/ \E h \in Handlers : \E a \in ServeRunArgs : get_hparams(h, a)
    \/ \E h \in Handlers : \E a \in ServeRunArgs : get_overrides(h, a)
    \/ \E h \in Handlers : LookupReturn(h)

SpecServe == InitServe /\ [][NextServe]_vars

----------------------------------------------------------------------------
(* The scheduler: the whole life of the process from main to the stop at   *)
(* exit, with and without periodic refresh, and with refresh requests.     *)

SchedConfigs ==
    {[multirun |-> TRUE, single |-> TRUE, interval |-> i] : i \in {0, 60}}

InitSched ==
    /\ RUN_DATA_CACHE = 1
    /\ CACHE_LOAD_TIME = 0
    /\ objs = (1 :> Dict(EmptyDict, 0))
    /\ source \in SpecSources
    /\ hydra = SpecHydra
    /\ stop_event = FALSE
    /\ background_thread = None
    /\ config \in SchedConfigs
    /\ pc = [t \in Builders \cup Handlers |-> IF t = "main" THEN "m_logdir" ELSE "idle"]
    /\ loc = [t \in Builders |-> NoLocals]
    /\ req = [h \in Handlers |-> NoRequest]
    /\ nreads = 0
    /\ nchanges = 0
    /\ built = <<>>

NextSched ==
    \/ MainExit
    \/ MainLogdir
    \/ MainStartBackground
    \/ BackgroundLoop
    \/ BackgroundWait
    \/ BackgroundStop
    \/ StopSignal
    \/ StopJoin
    \/ \E t \in Builders : BuildInvalidLogdir(t)
    \/ \E t \in Builders : BuildReadFails(t)
    \/ \E t \in Builders : BuildRead(t)
    \/ \E t \in Builders : BuildClear(t)
    \/ \E t \in Builders : BuildClearTime(t)
    \/ \E t \in Builders : BuildFill(t)
    \/ \E t \in Builders : BuildPublish(t)
    \/ \E t \in Builders : BuildTime(t)
    \/ \E h \in Handlers : TriggerCopy(h)
    \/ \E h \in Handlers : TriggerSpawn(h)
    \/ \E h \in Handlers : TriggerReturn(h)
    \/ ChangeSource

SpecSched == InitSched /\ [][NextSched]_vars

----------------------------------------------------------------------------
(* Periodic refresh on its own: main, then the background thread for as    *)
(* long as the process lives, with the files changing underneath.  The     *)
(* background thread is a thread of the operating system: a step of it     *)
(* that stays possible is taken.                                           *)

\* The log roots of this specification: one run with its records, no
\* event at all, a malformed event file, no directory.
PeriodicSources == {SrcA, SrcEmpty, SrcRaises, SrcGone}

InitPeriodic ==
    /\ RUN_DATA_CACHE = 1
    /\ CACHE_LOAD_TIME = 0
    /\ objs = (1 :> Dict(EmptyDict, 0))
    /\ source \in PeriodicSources
    /\ hydra = SpecHydra
    /\ stop_event = FALSE
    /\ background_thread = None
    /\ config \in SpecConfigs
    /\ pc = [t \in Builders \cup Handlers |-> IF t = "main" THEN "m_logdir" ELSE "idle"]
    /\ loc = [t \in Builders |-> NoLocals]
    /\ req = [h \in Handlers |-> NoRequest]
    /\ nreads = 0
    /\ nchanges = 0
    /\ built = <<>>

\* The files under LOG_ROOT_DIR change while the background thread runs.
ChangePeriodic ==
    /\ nchanges < MaxChanges
    /\ nchanges' = nchanges + 1
    /\ source' \in PeriodicSources \ {source}
    /\ UNCHANGED <<RUN_DATA_CACHE, CACHE_LOAD_TIME, objs, hydra, stop_event,
                   background_thread, config, pc, loc, req, nreads, built>>

\* One step of a refresh cycle of thread t.
Cycle(t) ==
    \/ BuildInvalidLogdir(t)
    \/ BuildReadFails(t)
    \/ BuildRead(t)
    \/ BuildClear(t)
    \/ BuildClearTime(t)
    \/ BuildFill(t)
    \/ BuildPublish(t)
    \/ BuildTime(t)

BackgroundStep == BackgroundLoop \/ BackgroundWait \/ Cycle("bg")

NextPeriodic ==
    \/ MainExit
    \/ MainLogdir
    \/ MainStartBackground
    \/ Cycle("main")
    \/ BackgroundStep
    \/ ChangePeriodic

SpecPeriodic == InitPeriodic /\ [][NextPeriodic]_vars /\ WF_vars(BackgroundStep)

----------------------------------------------------------------------------
(* One build by the main thread over the records of two runs, with the     *)
(* Hydra roots drawn from palettes of job logs and of date directories.    *)

\* Two runs with scalars, the first with hyperparameters.
SrcTwoRuns ==
    LogRoot(<< Row(<<"r1">>, "loss", Num(0), Num(5), Num(22)),
               Row(<<"r2">>, "loss", Num(0), Num(3), Num(24)) >>,
            << HRow(<<"r1", "ts">>, "lr", "0.1", 5) >>,
            {<<"r1">>, <<"r2">>})

MaxLogs == 2        \* job logs under the multirun root
MaxDates == 2       \* date directories under the single-run root

JobLog(name, dir, mentions) ==
    [ts |-> "d1/t1", name |-> name, dir |-> dir, readable |-> TRUE,
     mentions |-> mentions]

\* 11_7_log.out, whose run directory has the padded name 007; run.out in
\* the directory 11_8; 11_9.out in the directory 11_8, whose run
\* directory 9 does not exist;
\* run.out in a directory whose name has no task id; 11_8_log.out, which
\* cannot be read; and 11_5.out, whose overrides.yaml is empty.
LogPalette ==
    { JobLog([jt |-> TRUE, log |-> TRUE, task |-> <<7>>],
             [jt |-> FALSE, task |-> <<>>], {<<"r1">>}),
      JobLog([jt |-> FALSE, log |-> FALSE, task |-> <<>>],
             [jt |-> TRUE, task |-> <<8>>], {<<"r1">>, <<"r2">>}),
      JobLog([jt |-> TRUE, log |-> FALSE, task |-> <<9>>],
             [jt |-> TRUE, task |-> <<8>>], {<<"r1">>}),
      JobLog([jt |-> FALSE, log |-> FALSE, task |-> <<>>],
             [jt |-> FALSE, task |-> <<>>], {<<"r2">>}),
      [JobLog([jt |-> TRUE, log |-> TRUE, task |-> <<8>>],
              [jt |-> FALSE, task |-> <<>>], {<<"r1">>}) EXCEPT !.readable = FALSE],
      JobLog([jt |-> TRUE, log |-> FALSE, task |-> <<5>>],
             [jt |-> FALSE, task |-> <<>>], {<<"r2">>}) }

MultirunRoot(logs) ==
    [isdir |-> TRUE,
     logs |-> logs,
     rundirs |-> {<<"d1/t1", <<0, 0, 7>>>>, <<"d1/t1", <<8>>>>, <<"d1/t1", <<5>>>>},
     overrides |-> (<<"d1/t1", <<0, 0, 7>>>> :> File("lr=0.1")
                    @@ <<"d1/t1", <<8>>>> :> File("lr=0.2")
                    @@ <<"d1/t1", <<5>>>> :> File(""))]

\* A date directory with one time-directory whose log mentions the runs.
DateDir(mentions, overrides, cfg) ==
    [isdir |-> TRUE, listable |-> TRUE,
     times |-> << [isdir |-> TRUE,
                   logs |-> << [isfile |-> TRUE, readable |-> TRUE,
                                mentions |-> mentions] >>,
                   overrides |-> overrides,
                   config |-> cfg] >>]

\* A job of r1 and r2 with overrides.yaml, a job of r2 with config.yaml
\* only, a job of r2 without .hydra files, and a date directory that is
\* not readable.
DatePalette ==
    { DateDir({<<"r1">>, <<"r2">>}, Some(File("seed: 3")), Some(File("full: 3"))),
      DateDir({<<"r2">>}, None, Some(File("full: 1"))),
      DateDir({<<"r2">>}, None, None),
      [isdir |-> TRUE, listable |-> FALSE, times |-> <<>>] }

CorrelateConfigs ==
    {[multirun |-> a, single |-> b, interval |-> 0] : a, b \in BOOLEAN}

InitCorrelate ==
    /\ RUN_DATA_CACHE = 1
    /\ CACHE_LOAD_TIME = 0
    /\ objs = (1 :> Dict(EmptyDict, 0))
    /\ source = SrcTwoRuns
    /\ hydra \in {[multirun |-> MultirunRoot(l), single |-> [isdir |-> TRUE, dates |-> d]] :
                     l \in SeqsUpTo(LogPalette, MaxLogs),
                     d \in SeqsUpTo(DatePalette, MaxDates)}
    /\ stop_event = FALSE
    /\ background_thread = None
    /\ config \in CorrelateConfigs
    /\ pc = [t \in Builders \cup Handlers |-> IF t = "main" THEN "m_logdir" ELSE "idle"]
    /\ loc = [t \in Builders |-> NoLocals]
    /\ req = [h \in Handlers |-> NoRequest]
    /\ nreads = 0
    /\ nchanges = 0
    /\ built = <<>>

NextCorrelate ==
    \/ MainLogdir
    \/ BuildRead("main")
    \/ BuildOverridesFail("main")
    \/ BuildFill("main")
    \/ BuildPublish("main")
    \/ BuildTime("main")

SpecCorrelate == InitCorrelate /\ [][NextCorrelate]_vars

----------------------------------------------------------------------------
(* The background thread started and stopped again and again: after the    *)
(* start of the server, start_background_refresh and                       *)
(* stop_background_refresh are called in any order.                        *)

\* start_background_refresh, lines 527-532; t is the Thread object of line
\* 530, one that does not run.  When the test of line 528 fails the call
\* changes nothing.
start_background_refresh(t) ==
    /\ pc["main"] = "m_serve"
    /\ IF background_thread = None THEN TRUE
       ELSE ~is_alive(background_thread[1])
    /\ ~is_alive(t)
    /\ stop_event' = FALSE
    /\ background_thread' = Some(t)
    /\ pc' = [pc EXCEPT ![t] = "bg_loop"]
    /\ UNCHANGED <<RUN_DATA_CACHE, CACHE_LOAD_TIME, objs, source, hydra,
                   config, loc, req, nreads, nchanges, built>>

\* background_refresh_task run by the thread t, line 516: the loop test
\* finds the event clear.
TaskLoop(t) ==
    /\ pc[t] = "bg_loop"
    /\ ~stop_event
    /\ pc' = [pc EXCEPT ![t] = "b_read"]
    /\ UNCHANGED <<RUN_DATA_CACHE, CACHE_LOAD_TIME, objs, source, hydra,
                   stop_event, background_thread, config, loc, req, nreads,
                   nchanges, built>>

\* Line 522: stop_event.wait returns, by the timeout or by the event.
TaskWait(t) ==
    /\ pc[t] = "bg_wait"
    /\ pc' = [pc EXCEPT ![t] = "bg_loop"]
    /\ UNCHANGED <<RUN_DATA_CACHE, CACHE_LOAD_TIME, objs, source, hydra,
                   stop_event, background_thread, config, loc, req, nreads,
                   nchanges, built>>

\* Lines 516 and 523: the loop test finds the event set and the thread ends.
TaskEnd(t) ==
    /\ pc[t] = "bg_loop"
    /\ stop_event
    /\ pc' = [pc EXCEPT ![t] = "bg_stopped"]
    /\ UNCHANGED <<RUN_DATA_CACHE, CACHE_LOAD_TIME, objs, source, hydra,
                   stop_event, background_thread, config, loc, req, nreads,
                   nchanges, built>>

\* background_thread.join(timeout=10) of line 540 returns because the
\* thread has ended, or because the ten seconds are over: outside
\* preload_all_runs_unified the thread sees the event at once, so they are
\* over only while it is inside a build.
JoinReturns(t) == ~is_alive(t) \/ BuildInProgress(t)

\* stop_background_refresh, lines 540-545, with a caller that goes on
\* afterwards: join returns, background_thread = None.
StopReturn ==
    /\ pc["main"] = "m_join"
    /\ JoinReturns(background_thread[1])
    /\ background_thread' = None
    /\ pc' = [pc EXCEPT !["main"] = "m_serve"]
    /\ UNCHANGED <<RUN_DATA_CACHE, CACHE_LOAD_TIME, objs, source, hydra,
                   stop_event, config, loc, req, nreads, nchanges, built>>

InitLifecycle ==
    /\ RUN_DATA_CACHE = 1
    /\ CACHE_LOAD_TIME = 0
    /\ objs = (1 :> Dict(EmptyDict, 0))
    /\ source \in PeriodicSources
    /\ hydra = SpecHydra
    /\ stop_event = FALSE
    /\ background_thread = None
    /\ config \in SpecConfigs
    /\ pc = [t \in Builders \cup BackgroundThreads \cup Handlers |->
                IF t = "main" THEN "m_logdir" ELSE "idle"]
    /\ loc = [t \in Builders \cup BackgroundThreads |-> NoLocals]
    /\ req = [h \in Handlers |-> NoRequest]
    /\ nreads = 0
    /\ nchanges = 0
    /\ built = <<>>

NextLifecycle ==
    \/ MainExit
    \/ MainLogdir
    \/ MainStartBackground
    \/ Cycle("main")
    \/ \E t \in BackgroundThreads : start_background_refresh(t)
    \/ StopSignal
    \/ StopReturn
    \/ \E t \in BackgroundThreads : TaskLoop(t)
    \/ \E t \in BackgroundThreads : TaskWait(t)
    \/ \E t \in BackgroundThreads : TaskEnd(t)
    \/ \E t \in BackgroundThreads : Cycle(t)
    \/ ChangePeriodic

SpecLifecycle == InitLifecycle /\ [][NextLifecycle]_vars

----------------------------------------------------------------------------
(* The legacy server, src/server.py: one preload at startup that fills the *)
(* module-level dict in place, then requests served from it.  Its log root *)
(* is [isdir, runs]: runs maps every subdirectory to what it holds.  A     *)
(* cache value is None or Some(the dict of the series of the run).         *)

MaxLegacyRuns == 2  \* subdirectories of the log root of the legacy server

LegacyRunPool == << <<"r1">>, <<"r2">>, <<"r3">>, <<"r4">> >>
LegacyRunNames == {LegacyRunPool[i] : i \in 1..MaxLegacyRuns}

\* One row of the frame of a run: reader.scalars of tbparse has no dir_name.
LRow(tag, step, value, wall_time) ==
    [tag |-> tag, step |-> step, value |-> value, wall_time |-> wall_time]

\* A subdirectory: whether find_runs sees an events file in it, whether it
\* is still a directory when it is read, whether SummaryReader raises, and
\* the frame of its scalars.
RunDir(events, isdir, raises, frame) ==
    [events |-> events, isdir |-> isdir, raises |-> raises, frame |-> frame]

\* Two records out of step order; no events file; no scalars; a reader that
\* raises; a NaN value only; a directory that is gone when it is read; a
\* record with an infinite step next to a good one; a good record next to
\* a NaN value and a value that is no number.
LegacyDirPalette ==
    { RunDir(TRUE, TRUE, FALSE, << LRow("loss", Num(4), Num(9), Num(20)),
                                   LRow("loss", Num(0), Num(5), Num(22)) >>),
      RunDir(FALSE, TRUE, FALSE, << LRow("loss", Num(0), Num(5), Num(22)) >>),
      RunDir(TRUE, TRUE, FALSE, <<>>),
      RunDir(TRUE, TRUE, TRUE, << LRow("loss", Num(0), Num(5), Num(22)) >>),
      RunDir(TRUE, TRUE, FALSE, << LRow("loss", Num(2), NaN, Num(23)) >>),
      RunDir(TRUE, FALSE, FALSE, << LRow("loss", Num(0), Num(5), Num(22)) >>),
      RunDir(TRUE, TRUE, FALSE, << LRow("loss", Num(0), Num(5), Num(22)),
                                   LRow("acc", PosInf, Num(1), Num(24)) >>),
      RunDir(TRUE, TRUE, FALSE, << LRow("acc", Num(2), Num(3), Num(25)),
                                   LRow("loss", Num(2), NaN, Num(23)),
                                   LRow("loss", Num(4), Str, Num(26)) >>) }

LegacySources ==
    {[isdir |-> d, runs |-> r] :
        d \in BOOLEAN, r \in [LegacyRunNames -> LegacyDirPalette]}

\* find_runs(root_dir): the subdirectories with an events file, sorted.
find_runs(src) ==
    IF ~src.isdir THEN <<>>
    ELSE sorted({run \in DOMAIN src.runs : src.runs[run].events})

\* df.sort_values(by=step_col): ascending, NaN last.
LegacyStepKey(x) ==
    IF x.k = "num" THEN x.v ELSE IF x.k = "ninf" THEN -1000
    ELSE IF x.k = "inf" THEN 1000 ELSE 1001

LegacyInsertByStep(df, r) ==
    LET n == Cardinality({i \in 1..Len(df) :
                            LegacyStepKey(df[i].step) <= LegacyStepKey(r.step)})
    IN  SubSeq(df, 1, n) \o <<r>> \o SubSeq(df, n + 1, Len(df))

\* Lines 111-113 raise past the inner except clause: int() of an infinite
\* step is an OverflowError.
RowRaises(r) == isin_inf(r.step)

\* Lines 111-131: the row is appended.  int() of NaN and float() of what
\* is no number raise ValueError and the row is skipped, as is a row with
\* a NaN value or wall_time.
RowKept(r) ==
    /\ r.step.k = "num"
    /\ r.value.k \notin {"str", "nan"}
    /\ r.wall_time.k \notin {"str", "nan"}

\* grouped_data after the loop over the sorted rows.
grouped_data(frame) ==
    LET kept == SelectSeq(FoldSeq(LegacyInsertByStep, <<>>, frame), RowKept)
        tags == {kept[i].tag : i \in 1..Len(kept)}
    IN  [tag \in tags |->
            LET rows == SelectSeq(kept, LAMBDA r : r.tag = tag)
            IN  [steps |-> [i \in 1..Len(rows) |-> TruncInt(rows[i].step.v)],
                 values |-> [i \in 1..Len(rows) |-> rows[i].value],
                 wall_times |-> [i \in 1..Len(rows) |-> rows[i].wall_time]]]

\* read_run_data_from_disk(run_name) on the subdirectory d.
read_run_data_from_disk(d) ==
    IF ~d.isdir THEN None
    ELSE IF d.raises THEN None
    ELSE IF d.frame = <<>> THEN None
    ELSE IF \E i \in 1..Len(d.frame) : RowRaises(d.frame[i]) THEN None
    ELSE Some(grouped_data(d.frame))

\* Lines 151-162: what preload_all_runs stores for a run.
StoredRunData(run_data) ==
    IF run_data # None /\ run_data[1] # EmptyDict THEN run_data ELSE None

\* preload_all_runs, line 148: runs = find_runs(LOG_ROOT_DIR).
LegacyFind ==
    /\ pc["main"] = "l_find"
    /\ loc' = [loc EXCEPT !["main"].keep =
                  {find_runs(source)[i] : i \in 1..Len(find_runs(source))}]
    /\ pc' = [pc EXCEPT !["main"] = "l_load"]
    /\ UNCHANGED <<RUN_DATA_CACHE, CACHE_LOAD_TIME, objs, source, hydra,
                   stop_event, background_thread, config, req, nreads,
                   nchanges, built>>

\* Lines 150-162: one iteration of the loop, for the next run in order:
\* RUN_DATA_CACHE[run_name] = run_data or None, in the dict itself.
LegacyLoad ==
    /\ pc["main"] = "l_load"
    /\ loc["main"].keep # {}
    /\ LET run_name == sorted(loc["main"].keep)[1]
           run_data == read_run_data_from_disk(source.runs[run_name])
       IN  /\ objs' = [objs EXCEPT ![RUN_DATA_CACHE].data =
                          SetItemIn(@, run_name, StoredRunData(run_data))]
           /\ loc' = [loc EXCEPT !["main"].keep = @ \ {run_name}]
    /\ UNCHANGED <<RUN_DATA_CACHE, CACHE_LOAD_TIME, source, hydra,
                   stop_event, background_thread, config, pc, req, nreads,
                   nchanges, built>>

\* Lines 164 and 246-258: CACHE_LOAD_TIME, then app.run().
LegacyServe ==
    /\ pc["main"] = "l_load"
    /\ loc["main"].keep = {}
    /\ CACHE_LOAD_TIME' = 1
    /\ pc' = [pc EXCEPT !["main"] = "m_serve"]
    /\ UNCHANGED <<RUN_DATA_CACHE, objs, source, hydra, stop_event,
                   background_thread, config, loc, req, nreads, nchanges,
                   built>>

\* get_runs of the legacy server, lines 178-188.
legacy_runs_all_keys(cache) == sorted(DOMAIN cache)

legacy_runs(cache) == sorted({run \in DOMAIN cache : cache[run] # None})

LegacyGetRuns(h) ==
    /\ Serving /\ pc[h] = "idle"
    /\ req' = [req EXCEPT ![h] = [NoRequest EXCEPT !.op = "runs",
                                                    !.ref = RUN_DATA_CACHE]]
    /\ pc' = [pc EXCEPT ![h] = "lruns_ret"]
    /\ UNCHANGED <<RUN_DATA_CACHE, CACHE_LOAD_TIME, objs, source, hydra,
                   stop_event, background_thread, config, loc, nreads,
                   nchanges, built>>

LegacyRunsResponse(h) == Response(200, legacy_runs(objs[req[h].ref].data), 0)

\* get_data of the legacy server, lines 210-222: one iteration of the loop
\* over selected_runs.
LegacyAddRun(acc, cache, run_name) ==
    LET run_data == IF run_name \in DOMAIN cache /\ cache[run_name] # None
                    THEN cache[run_name][1] ELSE EmptyDict
        metrics == {m \in DOMAIN run_data : run_data[m].steps # <<>>}
    IN  [m \in DOMAIN acc \cup metrics |->
            IF m \in metrics
            THEN SetItemIn(IF m \in DOMAIN acc
                           THEN acc[m] ELSE EmptyDict,
                           run_name, run_data[m])
            ELSE acc[m]]

legacy_all_metrics_data(cache, selected_runs) ==
    FoldSeq(LAMBDA acc, run_name : LegacyAddRun(acc, cache, run_name),
            EmptyDict, selected_runs)

\* Lines 191-196: without runs the answer is 400.
LegacyGetData(h, selected_runs) ==
    /\ Serving /\ pc[h] = "idle"
    /\ req' = [req EXCEPT ![h] = [NoRequest EXCEPT
                  !.op = "data", !.arg = selected_runs,
                  !.ref = IF selected_runs = <<>> THEN 0 ELSE RUN_DATA_CACHE]]
    /\ pc' = [pc EXCEPT ![h] = "ldata_ret"]
    /\ UNCHANGED <<RUN_DATA_CACHE, CACHE_LOAD_TIME, objs, source, hydra,
                   stop_event, background_thread, config, loc, nreads,
                   nchanges, built>>

LegacyDataResponse(h) ==
    IF req[h].arg = <<>> THEN Response(400, "No runs specified", 0)
    ELSE Response(200, legacy_all_metrics_data(objs[req[h].ref].data, req[h].arg), 0)

LegacyReturn(h) == pc[h] \in {"lruns_ret", "ldata_ret"} /\ Return(h)

InitLegacy ==
    /\ RUN_DATA_CACHE = 1
    /\ CACHE_LOAD_TIME = 0
    /\ objs = (1 :> Dict(EmptyDict, 0))
    /\ source \in LegacySources
    /\ hydra = SpecHydra
    /\ stop_event = FALSE
    /\ background_thread = None
    /\ config \in SpecConfigs
    /\ pc = [t \in Builders \cup Handlers |-> IF t = "main" THEN "l_find" ELSE "idle"]
    /\ loc = [t \in Builders |-> NoLocals]
    /\ req = [h \in Handlers |-> NoRequest]
    /\ nreads = 0
    /\ nchanges = 0
    /\ built = <<>>

NextLegacy ==
    \/ LegacyFind
    \/ LegacyLoad
    \/ LegacyServe
    \/ \E h \in Handlers : LegacyGetRuns(h)
    \/ \E h \in Handlers : \E a \in ServeDataArgs : LegacyGetData(h, a)
    \/ \E h \in Handlers : LegacyReturn(h)

SpecLegacy == InitLegacy /\ [][NextLegacy]_vars

----------------------------------------------------------------------------
(* Properties.                                                             *)

\* The dict RUN_DATA_CACHE is bound to.
Published == objs[RUN_DATA_CACHE]

\* The cache objects a reader holds: the dict a handler read the global
\* into, and the copy get_runs and trigger_refresh made of it.
HeldBy(h) ==
    (IF req[h].ref # 0 THEN {objs[req[h].ref]} ELSE {})
        \cup (IF req[h].snap # None THEN {req[h].snap[1]} ELSE {})

\* d is the module-level {} or what a build assigned to RUN_DATA_CACHE in
\* its publishing statement.
Complete(d) ==
    \/ d.bid = 0 /\ d.data = EmptyDict
    \/ d.bid \in DOMAIN built /\ d.data = built[d.bid]

\* C1: whatever the interleaving of requests and builds, the cache object
\* a reader obtains (and the one the global names) is the initial empty
\* cache or the complete final result of a build, never a dict that a build
\* is still filling.
ReadersSeeCompleteBuilds ==
    /\ Complete(Published)
    /\ \A h \in Handlers : \A d \in HeldBy(h) : Complete(d)

\* A handler holds a published dict while a build is in progress whose
\* temp_cache has entries that its final result will not have.
ReaderDuringBuild ==
    \E h \in Handlers : \E t \in Builders :
        /\ pc[h] = "data_ret" /\ req[h].ref # 0
        /\ pc[t] = "b_publish"
        /\ DOMAIN objs[loc[t].temp].data # loc[t].keep
        /\ objs[req[h].ref].data # EmptyDict

\* C2 as stated: at most one execution of preload_all_runs_unified is in
\* progress at any time.
AtMostOneBuild ==
    Cardinality({t \in Builders : BuildInProgress(t)}) <= 1

\* C3 as stated: a trigger_refresh handled while a build is in progress
\* starts no builder thread.
TriggerDuringBuildStartsNothing ==
    [][\A h \in Handlers :
          (pc[h] = "tr_spawn" /\ pc'[h] = "tr_ret"
             /\ \E t \in Builders : BuildInProgress(t))
          => \A o \in OnDemand : pc'[o] = pc[o]]_vars

\* C4 as stated: the build whose result is published never read the log
\* source earlier than the build whose result it replaces.
FreshnessNeverGoesBack ==
    [][objs'[RUN_DATA_CACHE'].bid >= objs[RUN_DATA_CACHE].bid]_vars

\* C5: a cycle that ends in its first statement group because the log root
\* is not a directory or SummaryReader raises returns normally and leaves
\* RUN_DATA_CACHE, the dict it names and CACHE_LOAD_TIME as they were.
FailedReadPublishesNothing ==
    [][\A t \in Builders :
          (pc[t] = "b_read" /\ pc'[t] # pc[t]
             /\ (~source.isdir \/ source.raises))
          => /\ pc'[t] = ReturnPc(t)
             /\ RUN_DATA_CACHE' = RUN_DATA_CACHE
             /\ CACHE_LOAD_TIME' = CACHE_LOAD_TIME
             /\ objs'[RUN_DATA_CACHE] = objs[RUN_DATA_CACHE]]_vars

\* The background thread has been through a cycle that failed to read the
\* log source, after the main thread had published a non-empty cache.
FailedCycleAfterPublish ==
    /\ ~source.isdir \/ source.raises
    /\ pc["bg"] = "bg_wait"
    /\ nreads = 1
    /\ CACHE_LOAD_TIME = 1
    /\ Published.data # EmptyDict

\* C6 as stated: once the published cache is non-empty, no step of any
\* cycle replaces it with an empty one.
NeverDegradesToEmpty ==
    [][Published.data # EmptyDict => objs'[RUN_DATA_CACHE'].data # EmptyDict]_vars

\* C6, amended: a cycle that fails to read the log source keeps a non-empty
\* published cache, but a cycle whose frames give no candidate run name
\* binds RUN_DATA_CACHE to a new empty dict.
EmptyResultClearsFailureKeeps ==
    [][\A t \in Builders :
          /\ (pc[t] = "b_read" /\ pc'[t] = ReturnPc(t)
                /\ Published.data # EmptyDict)
             => objs'[RUN_DATA_CACHE'].data = Published.data
          /\ (pc[t] = "b_init" /\ pc'[t] # pc[t]
                /\ ~Step2Raises(loc[t].rd[1].hparams)
                /\ CandidateNames(t) = {})
             => /\ objs'[RUN_DATA_CACHE'].data = EmptyDict
                /\ RUN_DATA_CACHE' # RUN_DATA_CACHE]_vars

\* A handler still holds the non-empty dict of an earlier build while the
\* global names the empty dict of a later cycle.
ClearedAfterNonEmpty ==
    \E h \in Handlers :
        /\ req[h].ref # 0
        /\ objs[req[h].ref].data # EmptyDict
        /\ Published.data = EmptyDict
        /\ Published.bid > objs[req[h].ref].bid

\* The dicts that have been published and are still alive.
PublishedAlive == {RUN_DATA_CACHE} \cup ({req[h].ref : h \in Handlers} \ {0})

\* A step of a thread inside preload_all_runs_unified.
BuilderStep == \E t \in Builders : BuildInProgress(t) /\ pc'[t] # pc[t]

\* A step of get_runs, get_data, get_hparams or get_overrides.
ReaderStep ==
    \E h \in Handlers :
        /\ pc'[h] # pc[h]
        /\ {pc[h], pc'[h]} \cap {"runs_ret", "data_ret", "lookup_ret"} # {}

\* A dict that has been published is never written again, the global is
\* only rebound to a dict that did not exist, and no reader step writes a
\* global.
SnapshotsImmutable ==
    /\ \A id \in PublishedAlive : id \in DOMAIN objs' => objs'[id] = objs[id]
    /\ RUN_DATA_CACHE' # RUN_DATA_CACHE
          => BuilderStep /\ RUN_DATA_CACHE' \notin DOMAIN objs
    /\ ReaderStep => /\ RUN_DATA_CACHE' = RUN_DATA_CACHE
                     /\ CACHE_LOAD_TIME' = CACHE_LOAD_TIME

\* C7 as stated: the steps of a build change no shared state but the
\* binding of RUN_DATA_CACHE.
BuildChangesOnlyTheReference ==
    [][SnapshotsImmutable /\ (BuilderStep => CACHE_LOAD_TIME' = CACHE_LOAD_TIME)]_vars

\* C7, amended: a build rebinds RUN_DATA_CACHE to a new dict and, in the
\* statement that follows, assigns CACHE_LOAD_TIME; published dicts are
\* never written again and reader steps write neither global.
BuildChangesReferenceAndLoadTime ==
    [][/\ SnapshotsImmutable
       /\ CACHE_LOAD_TIME' # CACHE_LOAD_TIME
             => \E t \in Builders :
                   /\ pc[t] \in {"b_time", "b_clear_time"}
                   /\ pc'[t] = ReturnPc(t)
                   /\ CACHE_LOAD_TIME' = loc[t].bid]_vars

\* A second build has rebound the global and set the load time while a
\* handler still holds the dict of the first build.
RebindWhileHeld ==
    \E h \in Handlers :
        /\ req[h].ref # 0 /\ req[h].ref # RUN_DATA_CACHE
        /\ objs[req[h].ref].bid = 1
        /\ Published.bid = 2
        /\ CACHE_LOAD_TIME = 2

\* C8: in every state in which the server serves requests, builds in
\* progress or not, an idle handler can start each read operation, a
\* handler inside one can return, and the dict it answers from exists.
ReadersNeverWait ==
    \A h \in Handlers :
        /\ (pc["main"] = "m_serve" /\ pc[h] = "idle")
           => /\ ENABLED GetRunsCopy(h)
              /\ \A a \in DataArgs : ENABLED GetDataStart(h, a)
              /\ \A a \in RunArgs : ENABLED get_hparams(h, a)
              /\ \A a \in RunArgs : ENABLED get_overrides(h, a)
        /\ pc[h] = "runs_ret" => ENABLED GetRunsReturn(h)
        /\ pc[h] = "data_ret" => ENABLED GetDataReturn(h)
        /\ pc[h] = "lookup_ret" => ENABLED LookupReturn(h)
        /\ req[h].ref # 0 => req[h].ref \in DOMAIN objs

\* A handler is inside get_hparams or get_overrides while two builds are in
\* progress.
ReaderAmongBuilds ==
    \E h \in Handlers :
        /\ pc[h] = "lookup_ret" /\ req[h].ref # 0
        /\ Cardinality({t \in Builders : loc[t].bid # 0}) = 2

\* C9: the listing trigger_refresh returns is the one of the dict that was
\* published before the thread it starts read the log source, and the
\* handler can return while that thread is running.
TriggerAnswersFromOldSnapshot ==
    \A h \in Handlers :
        pc[h] = "tr_ret"
        => /\ TriggerResponse(h).bid <= req[h].mark
           /\ TriggerResponse(h).body = get_runs_info_from_cache(req[h].snap[1].data)
           /\ ENABLED TriggerReturn(h)

\* The handler has not returned yet and a build that read the log source
\* after the thread was started has already published.
TriggerOvertaken ==
    \E h \in Handlers :
        /\ pc[h] = "tr_ret"
        /\ Published.bid > req[h].mark
        /\ TriggerResponse(h).body # get_runs_info_from_cache(Published.data)

IsNonDecreasing(steps) == \A i \in 1..(Len(steps) - 1) : steps[i] <= steps[i + 1]

\* C10: in the published dict the steps of every series of every run are
\* non-decreasing, whatever the order of the records in the frame.
StepsNonDecreasing ==
    \A run \in DOMAIN Published.data :
        \A tag \in DOMAIN Published.data[run].scalars :
            IsNonDecreasing(Published.data[run].scalars[tag].steps)

\* The frame had two records of one series with the larger step first, and
\* the series is published with both.
PublishedOutOfOrderFrame ==
    /\ Published.bid = 1
    /\ \E i, j \in 1..Len(source.scalars) :
          /\ i < j
          /\ source.scalars[i].dir_name = <<"r1">>
          /\ source.scalars[j].dir_name = <<"r1">>
          /\ source.scalars[i].tag = "loss" /\ source.scalars[j].tag = "loss"
          /\ source.scalars[i].step.v > source.scalars[j].step.v + 1
    /\ Len(Published.data[<<"r1">>].scalars["loss"].steps) >= 2

\* A cell that is a finite number.
IsFinite(x) == x.k = "num"

\* C11 as stated: every value and every wall_time of every published
\* series is finite.
ValuesAndWallTimesFinite ==
    \A run \in DOMAIN Published.data :
        \A tag \in DOMAIN Published.data[run].scalars :
            LET series == Published.data[run].scalars[tag]
            IN  \A i \in 1..Len(series.steps) :
                    IsFinite(series.values[i]) /\ IsFinite(series.wall_times[i])

\* An entry that carries data: scalars, hparams or overrides text.
HasData(entry) ==
    \/ entry.scalars # EmptyDict
    \/ entry.hparams # None
    \/ entry.hydra_overrides # None /\ entry.hydra_overrides[1] # ""

\* C12: every run of the published dict has a non-empty scalars mapping,
\* hparams or overrides text; a run whose records are all dropped by the
\* cleaning and that has neither hparams nor overrides is not published.
PublishedRunsHaveData ==
    \A run \in DOMAIN Published.data : HasData(Published.data[run])

\* The frame held a NaN-valued record of r3, which has no hparams and no
\* overrides, next to records of other runs; the build published the other
\* runs without r3.
NaNOnlyRunDropped ==
    /\ Published.bid = 1
    /\ \E i \in 1..Len(source.scalars) :
          source.scalars[i].dir_name = <<"r3">> /\ isna(source.scalars[i].value)
    /\ <<"r3">> \notin DOMAIN Published.data
    /\ <<"r1">> \in DOMAIN Published.data

\* A record whose three numeric fields are finite numbers.
ValidRecord(r) == IsFinite(r.step) /\ IsFinite(r.value) /\ IsFinite(r.wall_time)

\* The record is in the published series of its run and tag.
RecordPublished(r) ==
    /\ r.dir_name \in DOMAIN Published.data
    /\ r.tag \in DOMAIN Published.data[r.dir_name].scalars
    /\ LET series == Published.data[r.dir_name].scalars[r.tag]
       IN  \E i \in 1..Len(series.steps) :
               /\ series.steps[i] = TruncInt(r.step.v)
               /\ series.values[i] = r.value
               /\ series.wall_times[i] = r.wall_time

\* C13 as stated: records that cannot be used are dropped one by one and
\* the cycle that read them still publishes every valid record it read.
InvalidRecordsDoNotFailTheCycle ==
    pc["main"] = "m_start_bg"
    => \A i \in 1..Len(source.scalars) :
           ValidRecord(source.scalars[i]) => RecordPublished(source.scalars[i])

\* The runs a request names.
Requested(selected_runs) == {selected_runs[i] : i \in 1..Len(selected_runs)}

\* tag -> run -> series over the requested runs that the cache holds.
RequestedSeries(cache, selected_runs) ==
    LET known == Requested(selected_runs) \cap DOMAIN cache
        tags == UNION {DOMAIN cache[r].scalars : r \in known}
    IN  [m \in tags |->
            [r \in {x \in known : m \in DOMAIN cache[x].scalars} |->
                cache[r].scalars[m]]]

\* C14: get_data answers 400 to an empty run list and otherwise 200 with
\* tag -> run -> series for exactly the requested runs that the dict it
\* read holds and that have the tag; unknown runs are left out.
GetDataAnswersRequestedRuns ==
    \A h \in Handlers :
        pc[h] = "data_ret"
        => IF req[h].arg = <<>>
           THEN GetDataResponse(h).status = 400
           ELSE /\ GetDataResponse(h).status = 200
                /\ GetDataResponse(h).body
                      = RequestedSeries(objs[req[h].ref].data, req[h].arg)

\* A request names a run of the cache and an unknown run, and the cache
\* has a second run with scalars that was not asked for.
KnownAndUnknownRequested ==
    \E h \in Handlers :
        /\ pc[h] = "data_ret"
        /\ req[h].arg = << <<"r1">>, <<"zz">> >>
        /\ {<<"r1">>, <<"r2">>} \subseteq DOMAIN objs[req[h].ref].data
        /\ GetDataResponse(h).body # EmptyDict

\* The place of a run name in the ascending order of names.
Position(name) == CHOOSE i \in 1..Len(NamesInOrder) : NamesInOrder[i] = name

\* C15: get_runs lists every run of the copy once, in ascending order of
\* name, with has_overrides and has_hparams telling whether the entry has
\* overrides and hparams.
GetRunsListsEveryRun ==
    \A h \in Handlers :
        pc[h] = "runs_ret"
        => LET cache == req[h].snap[1].data
               body == GetRunsResponse(h).body
           IN  /\ GetRunsResponse(h).status = 200
               /\ Len(body) = Cardinality(DOMAIN cache)
               /\ {body[i].name : i \in 1..Len(body)} = DOMAIN cache
               /\ \A i, j \in 1..Len(body) :
                     i < j => Position(body[i].name) < Position(body[j].name)
               /\ \A i \in 1..Len(body) :
                     /\ body[i].has_overrides
                           = (cache[body[i].name].hydra_overrides # None)
                     /\ body[i].has_hparams = (cache[body[i].name].hparams # None)

\* The listed copy has a run with hparams and without overrides and a run
\* with overrides and without hparams.
ListingWithBothFlags ==
    \E h \in Handlers :
        /\ pc[h] = "runs_ret"
        /\ {<<"r2">>, <<"r4">>} \subseteq DOMAIN req[h].snap[1].data
        /\ req[h].snap[1].data[<<"r4">>].hydra_overrides = None
        /\ req[h].snap[1].data[<<"r2">>].hparams = None
        /\ req[h].snap[1].data[<<"r2">>].hydra_overrides # None

\* The field get_hparams / get_overrides looks up: None for an unknown run.
StoredField(cache, op, run_name) ==
    IF run_name \notin DOMAIN cache THEN None
    ELSE IF op = "hparams" THEN cache[run_name].hparams
    ELSE cache[run_name].hydra_overrides

\* C16: get_hparams and get_overrides answer 200 with the stored field when
\* the run has it, 404 when the run is unknown or the field is None, 400
\* without a run name, and nothing else.
LookupFoundOrNotFound ==
    \A h \in Handlers :
        pc[h] = "lookup_ret"
        => IF req[h].arg = None THEN LookupResponse(h).status = 400
           ELSE LET field == StoredField(objs[req[h].ref].data, req[h].op,
                                         req[h].arg[1])
                IN  IF field = None THEN LookupResponse(h).status = 404
                    ELSE /\ LookupResponse(h).status = 200
                         /\ LookupResponse(h).body = field[1]

\* get_hparams is asked for a run that is in the cache without hparams.
KnownRunWithoutHParams ==
    \E h \in Handlers :
        /\ pc[h] = "lookup_ret" /\ req[h].op = "hparams"
        /\ req[h].arg = Some(<<"r2">>)
        /\ <<"r2">> \in DOMAIN objs[req[h].ref].data
        /\ LookupResponse(h).status = 404

\* The run has records, or there are no records at all and the run is a
\* subdirectory of the log root.
IsCandidate(run) ==
    /\ ~Step2Raises(source.hparams)
    /\ \/ run \in all_base_run_names(source.scalars, source.hparams)
       \/ /\ source.scalars = <<>> /\ source.hparams = <<>>
          /\ run \in source.subdirs

\* The single-run root has a job directory for the run and the multirun
\* root, configured or not, gives nothing for it.
OnlySingleRunMatch(run) ==
    /\ config.single
    /\ Truthy(find_hydra_overrides_single_run(run, TRUE, hydra.single))
    /\ ~Truthy(find_hydra_overrides(run, config.multirun, hydra.multirun))

\* C17 as stated: once the cycle of the main thread is over, a run that is
\* matched under the single-run root only is published with the text of
\* the matched file, and get_overrides returns that text.
SingleRunMatchIsServed ==
    pc["main"] = "m_serve"
    => \A run \in {r \in source.subdirs : IsCandidate(r) /\ OnlySingleRunMatch(r)} :
           /\ run \in DOMAIN Published.data
           /\ Published.data[run].hydra_overrides
                 = find_hydra_overrides_single_run(run, TRUE, hydra.single)
           /\ \A h \in Handlers :
                 (pc[h] = "lookup_ret" /\ req[h].op = "overrides"
                    /\ req[h].arg = Some(run))
                 => LookupResponse(h).status = 200

\* C18 as stated: with no scalar and no hparams record and a Hydra root
\* configured, multirun or single-run, the candidate names are the
\* immediate subdirectories of the log root.
FallbackWithAnyHydraRoot ==
    \A t \in Builders :
        (pc[t] = "b_init"
           /\ loc[t].rd[1].scalars = <<>> /\ loc[t].rd[1].hparams = <<>>
           /\ (config.multirun \/ config.single))
        => CandidateNames(t) = source.subdirs

\* The hparams records of a run, and those of its earliest event.
HParamRowsOf(run) ==
    SelectSeq(source.hparams, LAMBDA r : base_run_name(r.dir_name) = run)

EarliestEvent(rows) ==
    SelectSeq(rows, LAMBDA r : \A i \in 1..Len(rows) : r.wall_time <= rows[i].wall_time)

EarliestDict(rows) ==
    LET first == EarliestEvent(rows)
    IN  [tag \in {first[i].tag : i \in 1..Len(first)} \ {NoTag} |->
            first[CHOOSE i \in 1..Len(first) : first[i].tag = tag].value]

\* C19 as stated: the published hparam_dict of a run is made of the rows
\* of its event with the earliest wall_time, and of no other row.
HParamsFromEarliestEvent ==
    \A run \in DOMAIN Published.data :
        Published.data[run].hparams # None
        => Published.data[run].hparams[1].hparam_dict
              = EarliestDict(HParamRowsOf(run))

StopEndsPeriodicBuilds ==
    /\ [][(stop_event /\ pc["bg"] # "b_read") => pc'["bg"] # "b_read"]_vars
    /\ [](pc["main"] = "m_join" => ENABLED StopJoin)

\* stop_background_refresh has returned while the background thread is in
\* the middle of a build.
StopReturnedDuringBuild ==
    /\ stop_event
    /\ pc["main"] = "m_stopped"
    /\ pc["bg"] = "b_publish"

\* C22: with interval 0 the background thread is never started, and every
\* refresh request starts an on-demand thread that runs the builder.
IntervalZeroOnlyOnDemand ==
    /\ [](config.interval = 0 => (pc["bg"] = "idle" /\ loc["bg"] = NoLocals))
    /\ [][\A h \in Handlers :
            (pc[h] = "tr_spawn" /\ pc'[h] = "tr_ret")
            => \E t \in OnDemand : pc[t] = "idle" /\ pc'[t] = "b_read"]_vars

\* With interval 0 a second build, started by a refresh request, has
\* published and returned.
TriggeredBuildPublished ==
    /\ config.interval = 0
    /\ pc["main"] = "m_serve"
    /\ Published.bid = 2
    /\ CACHE_LOAD_TIME = 2
    /\ \A t \in OnDemand : pc[t] = "idle"

\* No build has run, no thread has been started and no request was served.
NothingRan ==
    /\ nreads = 0 /\ built = <<>>
    /\ RUN_DATA_CACHE = 1 /\ CACHE_LOAD_TIME = 0
    /\ \A t \in (Builders \ {"main"}) \cup Handlers : pc[t] = "idle"
    /\ \A t \in Builders : loc[t] = NoLocals
    /\ \A h \in Handlers : req[h] = NoRequest

\* C24: when the log root is not a directory at startup, main exits at the
\* test of line 756, and a process that has exited there has run no build,
\* started no thread and served no request.
StartupWithoutLogRootExits ==
    /\ (nchanges = 0 /\ ~source.isdir) => pc["main"] \in {"m_logdir", "exited"}
    /\ pc["main"] = "exited" => NothingRan

\* The process has exited at startup and the directory appeared later.
ExitedBeforeDirectoryAppeared ==
    /\ pc["main"] = "exited"
    /\ nchanges = 1
    /\ source.isdir

\* What one complete build over the files src publishes (steps 2 to 10).
SnapshotOf(src) ==
    LET names == FallbackNames(all_base_run_names(src.scalars, src.hparams),
                               config.multirun, src)
        with_scalars == ProcessScalars(InitTempCache(names), src.scalars)
        with_hparams == ProcessHParams(with_scalars, src.hparams)
        filled == SingleRunOverrides(MultirunOverrides(with_hparams, config, hydra),
                                     config, hydra)
        keep == RunsWithScalars(with_scalars)
                    \cup RunsWithHParams(with_scalars, src.hparams)
                    \cup RunsWithOverrides(filled)
    IN  IF names = {} THEN EmptyDict ELSE final_temp_cache(filled, keep)

\* C23: the background thread, once started, comes back to the call of the
\* builder whatever the cycle before did, and once the files have stopped
\* changing and can be read, the published dict comes to hold their
\* content (as long as the model has a build left).
PeriodicRefreshGoesOn ==
    /\ (pc["bg"] # "idle") ~> (pc["bg"] = "b_read")
    /\ (nchanges = MaxChanges /\ pc["bg"] # "idle"
          /\ source.isdir /\ ~source.raises)
       ~> (Published.data = SnapshotOf(source) \/ nreads = MaxBuilds)

\* The initial load failed, the files changed, and the background thread
\* has published what they hold now.
ChangePublishedAfterFailure ==
    /\ pc["bg"] = "b_time"
    /\ loc["bg"].bid = 1
    /\ RUN_DATA_CACHE = loc["bg"].temp
    /\ nchanges = 1
    /\ source = SrcA
    /\ Published.data = SnapshotOf(source)

\* C27 as stated: whatever dir_name the hparams records have, the build
\* does not fail: once the cycle of the main thread is over, a frame with
\* hparams records has been published, and every record's run, named by
\* the first segment of its dir_name, is in the published dict.
HParamRecordsNeverFailTheBuild ==
    (pc["main"] = "m_start_bg" /\ source.hparams # <<>>)
    => /\ Published.bid = 1
       /\ \A i \in 1..Len(source.hparams) :
             source.hparams[i].dir_name # <<>>
             => base_run_name(source.hparams[i].dir_name) \in DOMAIN Published.data

\* The candidate runs of the build, and what the two correlators return
\* for a run with the roots as they are configured.
Candidates == all_base_run_names(source.scalars, source.hparams)

MultirunText(run) == find_hydra_overrides(run, config.multirun, hydra.multirun)

SingleRunText(run) ==
    find_hydra_overrides_single_run(run, config.single, hydra.single)

\* C25: when every candidate run has a non-empty multirun text the
\* single-run correlator is not called (the build publishes even though a
\* call would raise), and a run with a non-empty multirun text is published
\* with that text, also when the single-run root has a match for it.
MultirunBeforeSingleRun ==
    pc["main"] = "m_start_bg"
    => /\ (\A run \in Candidates : Truthy(MultirunText(run))) => Published.bid = 1
       /\ Published.bid = 1
          => \A run \in Candidates :
                Truthy(MultirunText(run))
                => /\ run \in DOMAIN Published.data
                   /\ Published.data[run].hydra_overrides = MultirunText(run)

\* r1 is published with the multirun text although the single-run root has
\* a job with another text for it.
BothStrategiesMatch ==
    /\ pc["main"] = "m_start_bg"
    /\ Published.bid = 1
    /\ Published.data[<<"r1">>].hydra_overrides = Some("lr=0.2")
    /\ SingleRunText(<<"r1">>) = Some("seed: 3")

\* C26 as stated: whatever the Hydra roots hold, the cycle publishes a dict
\* with every run that has scalars.
CorrelationFailureIsLocal ==
    pc["main"] = "m_start_bg"
    => /\ Published.bid = 1
       /\ RunsWithScalars(ProcessScalars(InitTempCache(Candidates), source.scalars))
             \subseteq DOMAIN Published.data

\* The job log strategy A decides from: the first readable *_log.out file
\* that mentions the run, else the first readable *.out file that does
\* (<<>> when no file does).
DecidingLog(run) ==
    LET logs == hydra.multirun.logs
        first(S) == IF S = {} THEN <<>>
                    ELSE <<logs[CHOOSE i \in S : \A j \in S : i <= j]>>
        hits == {i \in 1..Len(logs) :
                    logs[i].readable /\ Contains(logs[i].mentions, run)}
        log_hits == {i \in hits : logs[i].name.log}
    IN  IF log_hits # {} THEN first(log_hits) ELSE first(hits)

\* The text of overrides.yaml in the run directory of task id under ts:
\* the directory named by the task id, else the one named by its three
\* digit form; None without such a directory or without the file.
ZeroPad3(task) == IF Len(task) >= 3 THEN task ELSE [i \in 1..(3 - Len(task)) |-> 0] \o task

RunDirectoryText(ts, task) ==
    LET M == hydra.multirun
        at(dirname) == IF <<ts, dirname>> \in DOMAIN M.overrides
                          /\ M.overrides[<<ts, dirname>>].readable
                       THEN Some(M.overrides[<<ts, dirname>>].text) ELSE None
    IN  IF <<ts, task>> \in M.rundirs THEN at(task)
        ELSE IF <<ts, ZeroPad3(task)>> \in M.rundirs THEN at(ZeroPad3(task))
        ELSE None

\* C28: the task id comes from the name of the deciding log when it has
\* the shape jobid_taskid, else from the name of its directory when that
\* has the shape, else the result is None; the text is that of the run
\* directory named by the task id, else of the one named by its padded
\* form; and a non-empty text is what the build publishes for the run.
TaskIdFromNameThenDirectory ==
    (pc["main"] = "m_start_bg" /\ config.multirun)
    => \A run \in Candidates :
          LET log == DecidingLog(run)
          IN  /\ log = <<>> => MultirunText(run) = None
              /\ (log # <<>> /\ log[1].name.jt)
                 => MultirunText(run) = RunDirectoryText(log[1].ts, log[1].name.task)
              /\ (log # <<>> /\ ~log[1].name.jt /\ log[1].dir.jt)
                 => MultirunText(run) = RunDirectoryText(log[1].ts, log[1].dir.task)
              /\ (log # <<>> /\ ~log[1].name.jt /\ ~log[1].dir.jt)
                 => MultirunText(run) = None
              /\ (Published.bid = 1 /\ Truthy(MultirunText(run)))
                 => Published.data[run].hydra_overrides = MultirunText(run)

\* r1 has got its text through the padded directory name and r2 through
\* the task id of the directory of its job log.
PaddedAndDirectoryTaskIds ==
    /\ pc["main"] = "m_start_bg"
    /\ Published.bid = 1
    /\ Published.data[<<"r1">>].hydra_overrides = Some("lr=0.1")
    /\ Published.data[<<"r2">>].hydra_overrides = Some("lr=0.2")
    /\ ~config.single

\* The deciding log of the run leads to no overrides file.
DecidingLogLeadsNowhere(run) ==
    LET log == DecidingLog(run)
    IN  /\ log # <<>>
        /\ task_id_of(log[1]) # None
        /\ RunDirectoryText(log[1].ts, task_id_of(log[1])[1]) = None

\* Another job log mentions the run and would lead to an overrides file.
OtherLogWouldResolve(run) ==
    \E i \in 1..Len(hydra.multirun.logs) :
        LET log == hydra.multirun.logs[i]
        IN  /\ log.readable /\ Contains(log.mentions, run)
            /\ task_id_of(log) # None
            /\ Truthy(RunDirectoryText(log.ts, task_id_of(log)[1]))

\* C29: when the deciding log of a run leads to no overrides file,
\* strategy A returns None for the run whatever the other job logs would
\* give, and the build publishes no multirun text for it.
OnlyTheFirstMatchingLogCounts ==
    (pc["main"] = "m_start_bg" /\ config.multirun)
    => \A run \in Candidates :
          DecidingLogLeadsNowhere(run)
          => /\ MultirunText(run) = None
             /\ (Published.bid = 1 /\ ~config.single)
                => Published.data[run].hydra_overrides = None

\* r1 is published without overrides although a later job log that
\* mentions it leads to an overrides file.
LaterLogIgnored ==
    /\ pc["main"] = "m_start_bg" /\ config.multirun /\ ~config.single
    /\ Published.bid = 1
    /\ DecidingLogLeadsNowhere(<<"r1">>)
    /\ OtherLogWouldResolve(<<"r1">>)
    /\ Published.data[<<"r1">>].hydra_overrides = None

\* The time-directories of the single-run root whose logs mention the
\* run, as places in the iteration order.
MatchingJobDirs(run) ==
    {i \in 1..Len(JobDirsInOrder(hydra.single)) :
        LogMatches(JobDirsInOrder(hydra.single)[i], run)}

\* C30: strategy B answers from the first time-directory whose log
\* mentions the run: the text of overrides.yaml, else that of config.yaml,
\* else None, whatever the later time-directories hold; a run without
\* multirun text is published with that answer.
FirstMatchingJobDirDecides ==
    (pc["main"] = "m_start_bg" /\ config.single /\ FirstUnlistable(hydra.single) = 0)
    => \A run \in Candidates :
          /\ MatchingJobDirs(run) = {} => SingleRunText(run) = None
          /\ MatchingJobDirs(run) # {}
             => LET dirs == JobDirsInOrder(hydra.single)
                    k == CHOOSE i \in MatchingJobDirs(run) :
                             \A j \in MatchingJobDirs(run) : i <= j
                IN  /\ dirs[k].overrides # None
                       => SingleRunText(run) = Some(dirs[k].overrides[1].text)
                    /\ (dirs[k].overrides = None /\ dirs[k].config # None)
                       => SingleRunText(run) = Some(dirs[k].config[1].text)
                    /\ (dirs[k].overrides = None /\ dirs[k].config = None)
                       => SingleRunText(run) = None
          /\ (Published.bid = 1 /\ ~Truthy(MultirunText(run)))
             => Published.data[run].hydra_overrides = SingleRunText(run)

\* r2 is published without overrides: its first job has no .hydra files,
\* and a later job that mentions it has an overrides.yaml.
LaterJobDirIgnored ==
    /\ pc["main"] = "m_start_bg" /\ config.single /\ ~config.multirun
    /\ Published.bid = 1
    /\ Published.data[<<"r2">>].hydra_overrides = None
    /\ \E i \in MatchingJobDirs(<<"r2">>) :
          JobDirsInOrder(hydra.single)[i].overrides # None

\* C31 as stated: every run for which the build recorded scalars, an
\* hparams entry or overrides text is in the dict the build publishes.
EveryRunWithAnEntryIsPublished ==
    [][\A t \in Builders :
          (pc[t] = "b_publish" /\ pc'[t] = "b_time")
          => \A run \in DOMAIN objs[loc[t].temp].data :
                HasData(objs[loc[t].temp].data[run])
                => run \in DOMAIN objs'[RUN_DATA_CACHE'].data]_vars

\* An entry with a non-empty piece of data: a non-empty scalars mapping, a
\* non-empty hparam_dict or overrides text.
HasNonEmptyData(entry) ==
    \/ entry.scalars # EmptyDict
    \/ entry.hparams # None /\ entry.hparams[1].hparam_dict # EmptyDict
    \/ Truthy(entry.hydra_overrides)

\* C31: the build publishes exactly the runs for which it recorded a
\* non-empty scalars mapping, a non-empty hparam_dict or overrides text;
\* a run whose hparams entry has an empty hparam_dict and that has neither
\* scalars nor overrides is left out.
RunsWithNonEmptyDataArePublished ==
    [][\A t \in Builders :
          (pc[t] = "b_publish" /\ pc'[t] = "b_time")
          => /\ DOMAIN objs'[RUN_DATA_CACHE'].data =
                   {run \in DOMAIN objs[loc[t].temp].data :
                       HasNonEmptyData(objs[loc[t].temp].data[run])}
             /\ \A run \in DOMAIN objs'[RUN_DATA_CACHE'].data :
                   objs'[RUN_DATA_CACHE'].data[run] = objs[loc[t].temp].data[run]]_vars

\* The frame held one hparams row of r2, a row without tag, and no other
\* data of r2; the build published other runs without r2.
RunWithEmptyHParamDictDropped ==
    /\ pc["main"] = "b_time"
    /\ Published.bid = 1
    /\ \E i \in 1..Len(source.hparams) :
          source.hparams[i].dir_name = <<"r2">> /\ source.hparams[i].tag = NoTag
    /\ <<"r2">> \notin DOMAIN Published.data
    /\ Published.data # EmptyDict

\* C32 as stated, for the states in which no build stands between its
\* assignment to RUN_DATA_CACHE and its assignment to CACHE_LOAD_TIME:
\* CACHE_LOAD_TIME is the duration of the build that made the published
\* dict.
LoadTimeBelongsToPublishedBuild ==
    (\A t \in Builders : pc[t] \notin {"b_time", "b_clear_time"})
    => CACHE_LOAD_TIME = Published.bid

\* The threads that run the loop of background_refresh_task.
RunningRefreshThreads == {t \in BackgroundThreads : is_alive(t)}

\* C33 as stated, for the states in which no call of
\* stop_background_refresh is under way and the stop event is clear, so
\* that no running thread is about to end: at most one thread runs the
\* periodic loop.
AtMostOneRefreshThread ==
    (pc["main"] = "m_serve" /\ ~stop_event)
    => Cardinality(RunningRefreshThreads) <= 1

\* The flag that the listing of the cache has for the run: has_hparams
\* for get_hparams, has_overrides for get_overrides.
ListedFlag(cache, op, run) ==
    LET info == get_runs_info_from_cache(cache)
        i == CHOOSE j \in 1..Len(info) : info[j].name = run
    IN  IF op = "hparams" THEN info[i].has_hparams ELSE info[i].has_overrides

\* C34: for a run of the dict a lookup reads, get_hparams answers with a
\* result exactly when the listing of that dict has has_hparams for the
\* run, and get_overrides answers with text exactly when the listing has
\* has_overrides; no stored overrides text is the empty string.
ListingFlagsAgreeWithLookups ==
    /\ \A h \in Handlers :
          (/\ pc[h] = "lookup_ret" /\ req[h].arg # None
           /\ req[h].arg[1] \in DOMAIN objs[req[h].ref].data)
          => (ListedFlag(objs[req[h].ref].data, req[h].op, req[h].arg[1])
                 <=> LookupResponse(h).status = 200)
    /\ \A id \in DOMAIN objs : \A run \in DOMAIN objs[id].data :
          objs[id].data[run].hydra_overrides # Some("")

\* get_hparams answers for r2 with an entry whose hparam_dict is empty, and
\* r2 has no overrides although the multirun root has an overrides.yaml for
\* it, an empty one.
EmptyHParamDictServed ==
    \E h \in Handlers :
        /\ pc[h] = "lookup_ret" /\ req[h].op = "hparams"
        /\ req[h].arg = Some(<<"r2">>)
        /\ <<"r2">> \in DOMAIN objs[req[h].ref].data
        /\ objs[req[h].ref].data[<<"r2">>].hparams # None
        /\ objs[req[h].ref].data[<<"r2">>].hparams[1].hparam_dict = EmptyDict
        /\ objs[req[h].ref].data[<<"r2">>].hydra_overrides = None
        /\ config.multirun
        /\ LookupResponse(h).status = 200

\* The records of the frame that the cleaning keeps for a run and a tag:
\* step, value and wall_time are numbers or infinite, the value is finite.
SurvivingRecords(run, tag) ==
    {j \in 1..Len(source.scalars) :
        LET r == source.scalars[j]
        IN  /\ r.dir_name = run /\ r.tag = tag
            /\ r.step.k \notin {"str", "nan"}
            /\ r.value.k = "num"
            /\ r.wall_time.k \notin {"str", "nan"}}

LoadsData(run) ==
    /\ source.isdir
    /\ run \in DOMAIN source.runs
    /\ LET d == source.runs[run]
       IN  /\ d.events /\ d.isdir /\ ~d.raises
           /\ \A i \in 1..Len(d.frame) : d.frame[i].step.k \notin {"inf", "ninf"}
           /\ \E i \in 1..Len(d.frame) :
                 /\ d.frame[i].step.k = "num"
                 /\ d.frame[i].value.k \in {"num", "inf", "ninf"}
                 /\ d.frame[i].wall_time.k \in {"num", "inf", "ninf"}

\* C36: after the preload of the legacy server every run that find_runs
\* found is a key of the cache, with None exactly if its read failed or
\* gave no data; get_runs lists the runs that loaded data, in ascending
\* order, and no other; get_data has entries only for requested runs that
\* loaded data.
LegacyFailedRunsAreHidden ==
    /\ pc["main"] = "m_serve"
       => LET cache == objs[RUN_DATA_CACHE].data
          IN  /\ DOMAIN cache = {run \in DOMAIN source.runs :
                                    source.isdir /\ source.runs[run].events}
              /\ \A run \in DOMAIN cache : (cache[run] = None) <=> ~LoadsData(run)
    /\ \A h \in Handlers :
          /\ pc[h] = "lruns_ret"
             => LET body == LegacyRunsResponse(h).body
                IN  /\ {body[i] : i \in 1..Len(body)}
                          = {run \in DOMAIN source.runs : LoadsData(run)}
                    /\ body = SelectSeq(NamesInOrder,
                                        LAMBDA n : n \in DOMAIN source.runs
                                                   /\ LoadsData(n))
          /\ (pc[h] = "ldata_ret" /\ req[h].arg # <<>>)
             => LET body == LegacyDataResponse(h).body
                IN  \A m \in DOMAIN body : \A run \in DOMAIN body[m] :
                        /\ LoadsData(run)
                        /\ \E i \in 1..Len(req[h].arg) : req[h].arg[i] = run

\* get_runs lists r1 alone while r2 is in the cache with None, its only
\* record having a NaN value.
FailedRunNotListed ==
    \E h \in Handlers :
        /\ pc[h] = "lruns_ret"
        /\ LegacyRunsResponse(h).body = << <<"r1">> >>
        /\ <<"r2">> \in DOMAIN objs[RUN_DATA_CACHE].data
        /\ objs[RUN_DATA_CACHE].data[<<"r2">>] = None
        /\ source.runs[<<"r2">>].frame = << LRow("loss", Num(2), NaN, Num(23)) >>

====
